---- MODULE Spec2Model ----
(***************************************************************************)
(* Message extraction of liquid-babel (liquid_babel/messages/extract.py)   *)
(* together with the extraction hooks of the translation filters           *)
(* (liquid_babel/filters/translate.py) and of the translate tag            *)
(* (liquid_babel/tags/translate.py).                                       *)
(*                                                                         *)
(* extract_from_template is a generator.  Each generator object is a       *)
(* process: its position in the recursive walk is an explicit stack of     *)
(* frames, its _comments list is a cell of `cells`, the tuples it has      *)
(* yielded so far are `out`.  One action is one stretch of the generator's *)
(* code between two loop heads or yields.                                  *)
(*                                                                         *)
(* Conventions                                                             *)
(*   - a Python str that the code only copies is a TLA+ string; a comment  *)
(*     text, which the code strips and prefix-tests, is a sequence of      *)
(*     one-character strings;                                              *)
(*   - a message part that is a plain str is the 1-tuple <<s>>, the        *)
(*     context part (s, "c") is the 2-tuple <<s, "c">>;                    *)
(*   - Python's None is the record None;                                   *)
(*   - every node and every filtered expression carries an `id`, its       *)
(*     object identity; the code never reads it.                           *)
(***************************************************************************)
EXTENDS Integers, Sequences, FiniteSets, TLC

VARIABLES
    template,      \* the BoundTemplate: [env, tree]
    keywords,      \* argument `keywords` of extract_from_template
    comment_tags,  \* argument `comment_tags`: [given, tags]
    gen,           \* the generator objects created by extract_from_template
    cells,         \* the _comments lists, one cell per list object
    request,       \* a render-time or parse-time call that is about to be made
    response       \* what that call did, None before it is made

vars == <<template, keywords, comment_tags, gen, cells, request, response>>

(***************************************************************************)
(* Bounds                                                                  *)
(***************************************************************************)
MaxStmts == 3      \* top-level statements of a generated template
MaxGap == 2        \* line distance between two consecutive statements
MaxArgs == 2       \* positional arguments of a generated filter call

None == [type |-> "None"]

(***************************************************************************)
(* Python helpers                                                          *)
(***************************************************************************)
RECURSIVE LStrip(_)
LStrip(s) == IF s # <<>> /\ Head(s) = " " THEN LStrip(Tail(s)) ELSE s

RECURSIVE RStrip(_)
RStrip(s) ==
    IF s # <<>> /\ s[Len(s)] = " " THEN RStrip(SubSeq(s, 1, Len(s) - 1)) ELSE s

\* str.strip()
Strip(s) == RStrip(LStrip(s))

\* str.startswith(prefix)
StartsWith(s, p) == Len(p) <= Len(s) /\ SubSeq(s, 1, Len(p)) = p

\* prefix in str
Contains(s, p) ==
    \E i \in 1..(Len(s) + 1) :
        i + Len(p) - 1 <= Len(s) /\ SubSeq(s, i, i + Len(p) - 1) = p

\* dict.get(key), default None
DictGet(d, key) == IF key \in DOMAIN d THEN d[key] ELSE None

EmptyDict == [k \in {} |-> None]

RECURSIVE Flatten(_)
Flatten(ss) == IF ss = <<>> THEN <<>> ELSE Head(ss) \o Flatten(Tail(ss))

(***************************************************************************)
(* The syntax tree the host engine hands to the extractor                  *)
(***************************************************************************)
Token(type, value, linenum) ==
    [type |-> type, value |-> value, linenum |-> linenum]

StringLiteral(v) == [type |-> "StringLiteral", value |-> v, children |-> <<>>]

\* One element of an identifier's path: a name (a str) or an index (an int,
\* written in digits)
IdentifierPathElement(kind, value) == [kind |-> kind, value |-> value]

Identifier(n) ==
    [type |-> "Identifier", name |-> n,
     path |-> <<IdentifierPathElement("str", n)>>, children |-> <<>>]

\* An identifier of several path elements, such as user.name
PathIdentifier(path) ==
    [type |-> "Identifier", name |-> path[1].value, path |-> path,
     children |-> <<>>]

IntegerLiteral(n) == [type |-> "IntegerLiteral", value |-> n, children |-> <<>>]

Filter(name, args, kwargs) == [name |-> name, args |-> args, kwargs |-> kwargs]

KwargValues(kwargs) ==
    LET RECURSIVE vals(_)
        vals(ks) ==
            IF ks = {} THEN <<>>
            ELSE LET k == CHOOSE x \in ks : TRUE
                 IN  <<kwargs[k]>> \o vals(ks \ {k})
    IN  vals(DOMAIN kwargs)

\* FilteredExpression: `expression` is the left operand, `filters` the chain.
FilteredExpression(id, left, filters) ==
    [type |-> "FilteredExpression", id |-> id, expression |-> left,
     filters |-> filters,
     children |-> <<left>> \o
        Flatten([i \in 1..Len(filters) |->
                    filters[i].args \o KwargValues(filters[i].kwargs)])]

\* An inline conditional: its children are the two filtered branches.
ConditionalExpression(id, first, condition, alternative) ==
    [type |-> "ConditionalExpression", id |-> id,
     children |-> <<first, condition, alternative>>]

ChildNode(expression, node) == [expression |-> expression, node |-> node]

CommentNode(id, linenum, hasText, text) ==
    [type |-> "CommentNode", id |-> id, tok |-> Token("tag", "comment", linenum),
     hasText |-> hasText, text |-> text, children |-> <<>>]

LiteralNode(id, linenum) ==
    [type |-> "LiteralNode", id |-> id, tok |-> Token("literal", "text", linenum),
     children |-> <<>>]

StatementNode(id, linenum, expression) ==
    [type |-> "StatementNode", id |-> id,
     tok |-> Token("statement", "", linenum),
     children |-> <<ChildNode(expression, None)>>]

BlockNode(id, tok, statements) ==
    [type |-> "BlockNode", id |-> id, tok |-> tok,
     children |-> [i \in 1..Len(statements) |-> ChildNode(None, statements[i])]]

IfNode(id, linenum, condition, consequence) ==
    [type |-> "IfNode", id |-> id, tok |-> Token("tag", "if", linenum),
     children |-> <<ChildNode(condition, consequence)>>]

\* MessageBlock of the translate tag: the body's block, its message text and
\* its placeholder variables.
MessageBlock(block, text, msgvars) == [block |-> block, text |-> text, vars |-> msgvars]

\* TranslateNode.__init__: `plural` is a MessageBlock or None.
TranslateNode(id, linenum, args, singular, plural) ==
    [type |-> "TranslateNode", id |-> id,
     tok |-> Token("tag", "translate", linenum),
     args |-> args, singular_block |-> singular.block,
     singular |-> singular.text, singular_vars |-> singular.vars,
     plural |-> plural,
     \* TranslateNode.children()
     children |->
        <<ChildNode(None, singular.block)>>
        \o (IF plural # None THEN <<ChildNode(None, plural.block)>> ELSE <<>>)
        \o [i \in 1..Len(KwargValues(args)) |->
                ChildNode(KwargValues(args)[i], None)]]

IsCommentNode(node) == node.type = "CommentNode"

\* isinstance(node, TranslatableTag)
IsTranslatableTag(node) == node.type = "TranslateNode"

IsStringLiteral(e) == e.type = "StringLiteral"

(***************************************************************************)
(* Extraction hooks                                                        *)
(***************************************************************************)
MessageText(lineno, funcname, message) ==
    [type |-> "MessageText", lineno |-> lineno, funcname |-> funcname,
     message |-> message]

\* Translate.message with the context pair placed last
TranslateMessageContextLast(left, f, lineno) ==
    IF ~IsStringLiteral(left) THEN None
    ELSE
        LET context == IF f.args # <<>> THEN f.args[1] ELSE None
            plural == DictGet(f.kwargs, "plural")
            funcname == IF IsStringLiteral(plural) THEN "ngettext" ELSE "gettext"
            message ==
                IF IsStringLiteral(plural)
                THEN <<(<<left.value>>), (<<plural.value>>)>>
                ELSE <<(<<left.value>>)>>
        IN  IF IsStringLiteral(context)
            THEN MessageText(lineno,
                             IF Len(message) = 1 THEN "pgettext" ELSE "npgettext",
                             message \o <<(<<context.value, "c">>)>>)
            ELSE MessageText(lineno, funcname, message)

\* Translate.message (the t filter)
TranslateMessage(left, f, lineno) ==
    IF ~IsStringLiteral(left) THEN None
    ELSE
        LET context == IF f.args # <<>> THEN f.args[1] ELSE None
            plural == DictGet(f.kwargs, "plural")
            funcname == IF IsStringLiteral(plural) THEN "ngettext" ELSE "gettext"
            message ==
                IF IsStringLiteral(plural)
                THEN <<(<<left.value>>), (<<plural.value>>)>>
                ELSE <<(<<left.value>>)>>
        IN  IF IsStringLiteral(context)
            THEN MessageText(lineno,
                             IF Len(message) = 1 THEN "pgettext" ELSE "npgettext",
                             <<(<<context.value, "c">>)>> \o message)
            ELSE MessageText(lineno, funcname, message)

\* GetText.message
GetTextMessage(left, f, lineno) ==
    IF ~IsStringLiteral(left) THEN None
    ELSE MessageText(lineno, "gettext", <<(<<left.value>>)>>)

\* NGetText.message
NGetTextMessage(left, f, lineno) ==
    IF Len(f.args) < 1 THEN None
    ELSE
        LET plural == f.args[1]
        IN  IF ~IsStringLiteral(left) \/ ~IsStringLiteral(plural) THEN None
            ELSE MessageText(lineno, "ngettext",
                             <<(<<left.value>>), (<<plural.value>>)>>)

\* PGetText.message
PGetTextMessage(left, f, lineno) ==
    IF Len(f.args) < 1 THEN None
    ELSE
        LET ctx == f.args[1]
        IN  IF ~IsStringLiteral(left) \/ ~IsStringLiteral(ctx) THEN None
            ELSE MessageText(lineno, "pgettext",
                             <<(<<ctx.value, "c">>), (<<left.value>>)>>)

\* NPGetText.message
NPGetTextMessage(left, f, lineno) ==
    IF Len(f.args) < 2 THEN None
    ELSE
        LET ctx == f.args[1]
            plural == f.args[2]
        IN  IF ~IsStringLiteral(left) \/ ~IsStringLiteral(plural)
               \/ ~IsStringLiteral(ctx)
            THEN None
            ELSE MessageText(lineno, "npgettext",
                             <<(<<ctx.value, "c">>), (<<left.value>>),
                               (<<plural.value>>)>>)

\* The classes register_translation_filters installs, by filter name.
TranslationFilterClass ==
    [t |-> "Translate", gettext |-> "GetText", ngettext |-> "NGetText",
     pgettext |-> "PGetText", npgettext |-> "NPGetText"]

\* isinstance(filter_func, TranslatableFilter); filter_func is a class name,
\* "Builtin" (a filter of the host engine) or None (no filter of that name).
IsTranslatableFilter(filter_func) ==
    filter_func \in {"Translate", "GetText", "NGetText", "PGetText", "NPGetText"}

\* filter_func.message(expression, _filter, lineno)
FilterMessage(filter_func, left, f, lineno) ==
    CASE filter_func = "Translate" -> TranslateMessage(left, f, lineno)
      [] filter_func = "GetText" -> GetTextMessage(left, f, lineno)
      [] filter_func = "NGetText" -> NGetTextMessage(left, f, lineno)
      [] filter_func = "PGetText" -> PGetTextMessage(left, f, lineno)
      [] filter_func = "NPGetText" -> NPGetTextMessage(left, f, lineno)

\* messages() with one MessageText for each body
TagMessagesPerBody(node) ==
    IF node.singular = "" THEN <<>>
    ELSE <<MessageText(node.tok.linenum, "gettext", <<(<<node.singular>>)>>)>>
         \o (IF node.plural # None
             THEN <<MessageText(node.tok.linenum, "gettext",
                                <<(<<node.plural.text>>)>>)>>
             ELSE <<>>)

\* TranslateNode.messages()
TagMessages(node) ==
    IF node.singular = "" THEN <<>>
    ELSE
        LET funcname == IF node.plural # None THEN "ngettext" ELSE "gettext"
            message ==
                IF node.plural # None
                THEN <<(<<node.singular>>), (<<node.plural.text>>)>>
                ELSE <<(<<node.singular>>)>>
            message_context == DictGet(node.args, "context")
        IN  IF IsStringLiteral(message_context)
            THEN <<MessageText(node.tok.linenum,
                               IF Len(message) = 1 THEN "pgettext" ELSE "npgettext",
                               <<(<<message_context.value, "c">>)>> \o message)>>
            ELSE <<MessageText(node.tok.linenum, funcname, message)>>

(***************************************************************************)
(* extract_from_template: the generator's frames and its steps             *)
(***************************************************************************)
\* visit(node) is about to run
VisitFrame(node) == [k |-> "visit", node |-> node]

\* visit_expression(expr, lineno) is about to run
ExprFrame(expr, lineno) == [k |-> "expr", expr |-> expr, lineno |-> lineno]

\* the loop over _extract_from_filters is at filter number idx of expr
FiltersFrame(expr, idx, lineno) ==
    [k |-> "filters", expr |-> expr, idx |-> idx, lineno |-> lineno]

\* the loop over node.messages() has `msgs` left
MsgsFrame(msgs, node) == [k |-> "msgs", msgs |-> msgs, node |-> node]

\* suspended at a yield; the statement after it is _comments.clear()
ResumeFrame == [k |-> "resume"]

\* _comment_tags = comment_tags or []
CommentTagsOrEmpty(arg) == IF arg.given THEN arg.tags ELSE <<>>

\* IsTagged with `comment_tag in comment_text` for startswith
IsTaggedAnywhere(text, tags) ==
    \E i \in 1..Len(tags) : Contains(Strip(text), tags[i])

\* the loop `for comment_tag in _comment_tags: if comment_text.startswith(..)`
IsTagged(text, tags) ==
    \E i \in 1..Len(tags) : StartsWith(Strip(text), tags[i])

\* BufferComment without the clear(): the list grows
BufferCommentAppends(buf, node) ==
    Append(buf, <<node.tok.linenum, Strip(node.text), node.id>>)

\* _comments.clear(); _comments.append((node.tok.linenum, comment_text))
\* (the third component is the comment node's identity)
BufferComment(buf, node) == <<(<<node.tok.linenum, Strip(node.text), node.id>>)>>

\* ShouldClear one line off
ShouldClearOffByOne(buf, lineno) == buf # <<>> /\ buf[Len(buf)][1] < lineno - 2

\* if _comments and _comments[-1][0] < lineno - 1: _comments.clear()
ShouldClear(buf, lineno) == buf # <<>> /\ buf[Len(buf)][1] < lineno - 1

\* ClearAfterYield left out
ClearAfterYieldKeeps(buf) == buf

\* _comments.clear() after a yield
ClearAfterYield(buf) == <<>>

\* NewCommentList with one list for every call, never emptied
ModuleCommentList(g, lists) == [cell |-> 1, buf |-> lists[1]]

\* NewCommentList with one list for every call, emptied when a call starts
SharedCommentList(g, lists) == [cell |-> 1, buf |-> <<>>]

\* _comments: List[Tuple[int, str]] = []
\* Call g creates a list of its own, empty: `cell` names the list object,
\* `buf` is what it holds.  (lists: the list objects there are.)
NewCommentList(g, lists) == [cell |-> g, buf |-> <<>>]

\* comments=[text for _, text in _comments]
CommentTexts(buf) == [i \in 1..Len(buf) |-> buf[i][2]]

\* environment.filters.get(_filter.name)
FilterGet(env, name) ==
    IF name \in DOMAIN env.filters THEN env.filters[name] ELSE "None"

\* IsFilterCallSite without the test of the name
IsFilterCallSiteAnyName(env, name, kws) ==
    IsTranslatableFilter(FilterGet(env, name))

\* _filter.name in keywords and isinstance(filter_func, TranslatableFilter)
IsFilterCallSite(env, name, kws) ==
    name \in kws /\ IsTranslatableFilter(FilterGet(env, name))

\* token.type == TOKEN_TAG and token.value in keywords
\*   and isinstance(node, TranslatableTag)
IsTagCallSite(node, kws) ==
    node.tok.type = "tag" /\ node.tok.value \in kws /\ IsTranslatableTag(node)

\* ChildFrames with the children last to first
ChildFramesReversed(node) ==
    Flatten([j \in 1..Len(node.children) |->
        LET i == Len(node.children) + 1 - j
        IN  (IF node.children[i].expression # None
             THEN <<ExprFrame(node.children[i].expression, node.tok.linenum)>>
             ELSE <<>>)
            \o (IF node.children[i].node # None
                THEN <<VisitFrame(node.children[i].node)>>
                ELSE <<>>)])

\* for child in node.children(): expression first, then node
ChildFrames(node) ==
    Flatten([i \in 1..Len(node.children) |->
        (IF node.children[i].expression # None
         THEN <<ExprFrame(node.children[i].expression, node.tok.linenum)>>
         ELSE <<>>)
        \o (IF node.children[i].node # None
            THEN <<VisitFrame(node.children[i].node)>>
            ELSE <<>>)])

\* for expression in expr.children(): visit_expression(expression, lineno)
ExprChildFrames(expr, lineno) ==
    [i \in 1..Len(expr.children) |-> ExprFrame(expr.children[i], lineno)]

\* for node in template.tree.statements: visit(node)
StatementFrames(tree) == [i \in 1..Len(tree) |-> VisitFrame(tree[i])]

MessageTuple(lineno, funcname, message, comments) ==
    [lineno |-> lineno, funcname |-> funcname, message |-> message,
     comments |-> comments]

\* Content that holds no call-site: literal text, or an output statement
\* without filters.
IsUnrelated(node) ==
    \/ node.type = "LiteralNode"
    \/ /\ node.type = "StatementNode"
       /\ node.children[1].expression.type = "FilteredExpression"
       /\ node.children[1].expression.filters = <<>>

\* The generator before its first next()
NewGen ==
    [status |-> "new", stack |-> <<>>, out |-> <<>>, trace |-> <<>>,
     cell |-> 0, raisedAt |-> None, unrelated |-> FALSE, lastTagged |-> 0,
     afterOther |-> FALSE, via |-> "extract_from_template"]

\* A generator whose stack ran empty raises StopIteration
Settle(G) == IF G.status = "running" /\ G.stack = <<>>
             THEN [G EXCEPT !.status = "done"] ELSE G

\* yield MessageTuple(...), with the adjacency test before it.  `call` and
\* the trace record what was yielded where; the code keeps neither.
YieldStep(G, buf, m, lineno, call, rest) ==
    LET kept == IF ShouldClear(buf, lineno) THEN <<>> ELSE buf
    IN  [gen |-> [G EXCEPT
                    !.out = Append(@, MessageTuple(m.lineno, m.funcname,
                                                   m.message, CommentTexts(kept))),
                    !.trace = Append(@, [call |-> call, lineno |-> lineno,
                                         before |-> buf, attached |-> kept,
                                         unrelated |-> G.unrelated,
                                         lastTagged |-> G.lastTagged]),
                    !.stack = <<ResumeFrame>> \o rest],
         buf |-> kept]

FilterCall(expr, idx) ==
    [kind |-> "filter", id |-> expr.id, idx |-> idx,
     name |-> expr.filters[idx].name, ntype |-> expr.type]

TagCall(node) ==
    [kind |-> "tag", id |-> node.id, idx |-> 1, name |-> node.tok.value,
     ntype |-> node.type]

\* visit(node) up to its loop over the children
VisitStep(G, buf, T, kws, tags) ==
    LET node == Head(G.stack).node
        rest == Tail(G.stack)
        seen == [G EXCEPT !.unrelated = @ \/ IsUnrelated(node)]
    IN  IF IsCommentNode(node) /\ node.hasText
        THEN IF IsTagged(node.text, tags)
             THEN [gen |-> [G EXCEPT !.stack = ChildFrames(node) \o rest,
                                     !.unrelated = FALSE,
                                     !.lastTagged = node.id],
                   buf |-> BufferComment(buf, node)]
             ELSE [gen |-> [G EXCEPT !.stack = ChildFrames(node) \o rest],
                   buf |-> buf]
        ELSE IF IsTagCallSite(node, kws)
        THEN [gen |-> [seen EXCEPT
                         !.stack = <<MsgsFrame(TagMessages(node), node)>>
                                   \o ChildFrames(node) \o rest],
              buf |-> buf]
        ELSE [gen |-> [seen EXCEPT !.stack = ChildFrames(node) \o rest],
              buf |-> buf]

\* the loop over node.messages()
MsgsStep(G, buf, T, kws, tags) ==
    LET fr == Head(G.stack)
        rest == Tail(G.stack)
    IN  IF fr.msgs = <<>>
        THEN [gen |-> [G EXCEPT !.stack = rest], buf |-> buf]
        ELSE YieldStep(G, buf, Head(fr.msgs), Head(fr.msgs).lineno,
                       TagCall(fr.node),
                       <<MsgsFrame(Tail(fr.msgs), fr.node)>> \o rest)

\* visit_expression(expr, lineno) up to its first loop
ExprStep(G, buf, T, kws, tags) ==
    LET fr == Head(G.stack)
        rest == Tail(G.stack)
        below == ExprChildFrames(fr.expr, fr.lineno) \o rest
    IN  IF fr.expr.type = "FilteredExpression"
        THEN [gen |-> [G EXCEPT
                         !.stack = <<FiltersFrame(fr.expr, 1, fr.lineno)>> \o below],
              buf |-> buf]
        ELSE [gen |-> [G EXCEPT !.stack = below], buf |-> buf]

\* the loop over the filters left at the first tuple it yields
FiltersStepFirstOnly(G, buf, T, kws, tags) ==
    LET fr == Head(G.stack)
        rest == Tail(G.stack)
        expr == fr.expr
    IN  IF fr.idx > Len(expr.filters)
        THEN [gen |-> [G EXCEPT !.stack = rest], buf |-> buf]
        ELSE
            LET f == expr.filters[fr.idx]
                filter_func == FilterGet(T.env, f.name)
                next == <<FiltersFrame(expr, fr.idx + 1, fr.lineno)>> \o rest
            IN  IF ~IsFilterCallSite(T.env, f.name, kws)
                THEN [gen |-> [G EXCEPT !.stack = next], buf |-> buf]
                ELSE
                    LET m == FilterMessage(filter_func, expr.expression, f,
                                           fr.lineno)
                    IN  IF m = None
                        \* `for _lineno, funcname, message in ...` unpacks
                        \* None: TypeError leaves the generator
                        THEN [gen |-> [G EXCEPT
                                         !.status = "raised", !.stack = <<>>,
                                         !.raisedAt = FilterCall(expr, fr.idx)],
                              buf |-> buf]
                        ELSE YieldStep(G, buf, m, fr.lineno,
                                       FilterCall(expr, fr.idx), rest)

\* one round of `for _filter in filters` in _extract_from_filters and of the
\* loop in visit_expression that unpacks what it yields
FiltersStep(G, buf, T, kws, tags) ==
    LET fr == Head(G.stack)
        rest == Tail(G.stack)
        expr == fr.expr
    IN  IF fr.idx > Len(expr.filters)
        THEN [gen |-> [G EXCEPT !.stack = rest], buf |-> buf]
        ELSE
            LET f == expr.filters[fr.idx]
                filter_func == FilterGet(T.env, f.name)
                next == <<FiltersFrame(expr, fr.idx + 1, fr.lineno)>> \o rest
            IN  IF ~IsFilterCallSite(T.env, f.name, kws)
                THEN [gen |-> [G EXCEPT !.stack = next], buf |-> buf]
                ELSE
                    LET m == FilterMessage(filter_func, expr.expression, f,
                                           fr.lineno)
                    IN  IF m = None
                        \* `for _lineno, funcname, message in ...` unpacks
                        \* None: TypeError leaves the generator
                        THEN [gen |-> [G EXCEPT
                                         !.status = "raised", !.stack = <<>>,
                                         !.raisedAt = FilterCall(expr, fr.idx)],
                              buf |-> buf]
                        ELSE YieldStep(G, buf, m, fr.lineno,
                                       FilterCall(expr, fr.idx), next)

\* next() on a generator suspended at a yield: _comments.clear()
ResumeStep(G, buf, T, kws, tags) ==
    [gen |-> [G EXCEPT !.stack = Tail(G.stack)], buf |-> ClearAfterYield(buf)]

\* The first next(): the function body up to its loop over the statements;
\* `cell` is the list that _comments is bound to
StartStep(G, cell, T) ==
    Settle([G EXCEPT !.status = "running", !.cell = cell,
                     !.stack = StatementFrames(T.tree)])

\* What the generator does next, from where it stands
GenStep(G, buf, T, kws, tags) ==
    LET r == CASE Head(G.stack).k = "visit" -> VisitStep(G, buf, T, kws, tags)
               [] Head(G.stack).k = "msgs" -> MsgsStep(G, buf, T, kws, tags)
               [] Head(G.stack).k = "expr" -> ExprStep(G, buf, T, kws, tags)
               [] Head(G.stack).k = "filters" -> FiltersStep(G, buf, T, kws, tags)
               [] Head(G.stack).k = "resume" -> ResumeStep(G, buf, T, kws, tags)
    IN  [gen |-> Settle(r.gen), buf |-> r.buf]

Finished(G) == G.status \in {"done", "raised"}

RECURSIVE RunToEnd(_, _, _, _, _)
RunToEnd(G, buf, T, kws, tags) ==
    IF Finished(G) THEN G
    ELSE LET r == GenStep(G, buf, T, kws, tags)
         IN  RunToEnd(r.gen, r.buf, T, kws, tags)

\* list(extract_from_template(T, kws, tags)) with nothing else running
RunAlone(T, kws, tags) == RunToEnd(StartStep(NewGen, 0, T), <<>>, T, kws, tags)

(***************************************************************************)
(* Templates, environments and arguments the model starts from             *)
(***************************************************************************)
\* Environment() after register_translation_filters: the five translation
\* filters beside the host's own filters
StandardEnv ==
    [filters |-> [n \in {"t", "gettext", "ngettext", "pgettext", "npgettext",
                         "upcase"} |->
                    IF n = "upcase" THEN "Builtin" ELSE TranslationFilterClass[n]]]

\* Environment() alone: no translation filter is registered
PlainEnv == [filters |-> [n \in {"upcase"} |-> "Builtin"]]

\* The environment behind liquid.Template(source): the engine's own filters
\* and tags, none of this package
ImplicitEnvironment == [filters |-> [n \in {"upcase"} |-> "Builtin"]]

\* Template(source): None when the source does not parse, which is the case
\* when it holds a translate tag, a tag the implicit environment lacks
LiquidTemplate(source) ==
    IF \E i \in 1..Len(source) : source[i].type = "TranslateNode"
    THEN None
    ELSE [env |-> ImplicitEnvironment, tree |-> source]

\* DEFAULT_KEYWORDS of messages/translations.py
DefaultKeywords ==
    {"t", "trans", "translate", "gettext", "ngettext", "pgettext", "npgettext"}

KeywordChoices ==
    {DefaultKeywords,
     {"t", "ngettext", "npgettext", "upcase", "nofilter", "if"}}

CommentTagChoices ==
    {[given |-> FALSE, tags |-> <<>>],
     [given |-> TRUE, tags |-> <<>>],
     [given |-> TRUE, tags |-> <<(<<"T">>)>>],
     [given |-> TRUE, tags |-> <<(<<"N">>), (<<"T">>)>>]}

FilterNames ==
    {"t", "gettext", "ngettext", "pgettext", "npgettext", "upcase", "nofilter"}

ArgExprs == {StringLiteral("arg"), Identifier("other")}

ArgLists == UNION {[1..n -> ArgExprs] : n \in 0..MaxArgs}

KwargChoices ==
    {EmptyDict,
     [k \in {"plural"} |-> StringLiteral("Hellos")],
     [k \in {"plural"} |-> Identifier("thing")]}

LeftExprs == {StringLiteral("Hello"), Identifier("some")}

\* {{ left | f1 | f2 ... }} on line `linenum`
Output(id, linenum, left, filters) ==
    StatementNode(id, linenum, FilteredExpression(id + 1, left, filters))

\* {% translate [context: ctx] %}singular[{% plural %}plural]{% endtranslate %}
TranslateBlock(id, linenum, args, singular, plural) ==
    TranslateNode(id, linenum, args,
        MessageBlock(
            BlockNode(id + 1,
                      IF singular = "" THEN Token("tag", "endtranslate", linenum)
                      ELSE Token("literal", "text", linenum),
                      IF singular = "" THEN <<>>
                      ELSE <<LiteralNode(id + 2, linenum)>>),
            singular, <<>>),
        IF plural = "" THEN None
        ELSE MessageBlock(
                BlockNode(id + 3, Token("literal", "text", linenum),
                          <<LiteralNode(id + 4, linenum)>>),
                plural, <<>>))

\* The statement a shape stands for, at line `linenum`
Stmt(shape, id, linenum) ==
    CASE shape = "cT" -> CommentNode(id, linenum, TRUE, <<" ", "T", "a", " ">>)
      [] shape = "cU" -> CommentNode(id, linenum, TRUE, <<"T", "b">>)
      [] shape = "cX" -> CommentNode(id, linenum, TRUE, <<"a", "T">>)
      [] shape = "c0" -> CommentNode(id, linenum, FALSE, <<>>)
      [] shape = "lit" -> LiteralNode(id, linenum)
      [] shape = "plain" -> Output(id, linenum, StringLiteral("Hello"), <<>>)
      [] shape = "get" ->
            Output(id, linenum, StringLiteral("Hello"),
                   <<Filter("gettext", <<>>, EmptyDict)>>)
      [] shape = "chain" ->
            Output(id, linenum, StringLiteral("Hello"),
                   <<Filter("t", <<>>, EmptyDict), Filter("upcase", <<>>, EmptyDict),
                     Filter("gettext", <<>>, EmptyDict)>>)
      [] shape = "dyn" ->
            Output(id, linenum, Identifier("some"),
                   <<Filter("gettext", <<>>, EmptyDict)>>)
      [] shape = "trans" -> TranslateBlock(id, linenum, EmptyDict, "Hi", "")

\* line of statement i when statement j starts gaps[j] lines below j - 1
RECURSIVE LineOf(_, _)
LineOf(gaps, i) == IF i = 1 THEN 1 ELSE LineOf(gaps, i - 1) + gaps[i]

\* A flat template: one statement per shape
FlatTree(shapes, gaps) ==
    [i \in 1..Len(shapes) |-> Stmt(shapes[i], 10 * i, LineOf(gaps, i))]

\* {% if c %} s1 {% if c %} s2 {% endif %} s3 {% endif %}
\* {{ 'Hello' | gettext if c else 'Bye' | t }} s4, one line each
NestedTree(s1, s2, s3, s4) ==
    <<IfNode(100, 1, Identifier("c"),
          BlockNode(101, Stmt(s1, 110, 2).tok,
              <<Stmt(s1, 110, 2),
                IfNode(120, 3, Identifier("c"),
                    BlockNode(121, Stmt(s2, 130, 4).tok, <<Stmt(s2, 130, 4)>>)),
                Stmt(s3, 140, 5)>>)),
      StatementNode(150, 6,
          ConditionalExpression(151,
              FilteredExpression(152, StringLiteral("Hello"),
                                 <<Filter("gettext", <<>>, EmptyDict)>>),
              Identifier("c"),
              FilteredExpression(153, StringLiteral("Bye"),
                                 <<Filter("t", <<>>, EmptyDict)>>))),
      Stmt(s4, 160, 7)>>

Gens == {1, 2}

InitRest ==
    /\ gen = [g \in Gens |-> NewGen]
    /\ cells = [c \in Gens |-> <<>>]
    /\ request = None
    /\ response = None

\* statements of every kind at every line distance
InitFlat ==
    /\ \E k \in 1..MaxStmts :
         \E d \in [1..k -> {"cT", "cU", "lit", "get", "trans"}] :
           \E gp \in [1..k -> 0..MaxGap] :
             /\ gp[1] = 0
             /\ template = [env |-> StandardEnv, tree |-> FlatTree(d, gp)]
    /\ keywords = DefaultKeywords
    /\ comment_tags = [given |-> TRUE, tags |-> <<(<<"T">>)>>]
    /\ InitRest

\* two comments of every kind above a call-site, under every comment_tags
InitComments ==
    /\ \E c1, c2 \in {"cT", "cU", "cX", "c0"}, site \in {"get", "trans", "chain"},
          g2, g3 \in 0..MaxGap :
         template = [env |-> StandardEnv,
                     tree |-> FlatTree(<<c1, c2, site>>, <<0, g2, g3>>)]
    /\ keywords = DefaultKeywords
    /\ comment_tags \in CommentTagChoices
    /\ InitRest

\* one filter call-site in every form, alone or beside a well-formed one
InitForms ==
    /\ \E name \in FilterNames, left \in LeftExprs, args \in ArgLists,
          kwargs \in KwargChoices, place \in {"alone", "first", "last"},
          env \in {StandardEnv, PlainEnv} :
         LET site(i) == Output(10 * i, i, left, <<Filter(name, args, kwargs)>>)
             good(i) == Stmt("get", 10 * i, i)
         IN  template =
                [env |-> env,
                 tree |-> CASE place = "alone" -> <<site(1)>>
                            [] place = "first" -> <<site(1), good(2)>>
                            [] place = "last" -> <<good(1), site(2)>>]
    /\ keywords \in KeywordChoices
    /\ comment_tags = [given |-> FALSE, tags |-> <<>>]
    /\ InitRest

\* The arguments of a translate tag: none, a context that is a literal or a
\* variable, and (in a node built through TranslateNode's constructor) an
\* argument that holds a call-site of its own
TranslateArgs ==
    {EmptyDict,
     [k \in {"context"} |-> StringLiteral("menu")],
     [k \in {"context"} |-> Identifier("some")],
     [k \in {"you"} |->
        FilteredExpression(26, StringLiteral("World"),
                           <<Filter("t", <<>>, EmptyDict)>>)]}

\* blocks in blocks, expressions in expressions, a translate tag in every form
InitNested ==
    /\ \/ \E s1, s2, s3, s4 \in {"cT", "get", "trans", "chain"} :
            template = [env |-> StandardEnv, tree |-> NestedTree(s1, s2, s3, s4)]
       \/ \E args \in TranslateArgs,
             singular \in {"", "Hi"}, plural \in {"", "His"},
             before \in {"cT", "lit"} :
            template =
                [env |-> StandardEnv,
                 tree |-> <<Stmt(before, 10, 1),
                            TranslateBlock(20, 2, args, singular, plural),
                            Stmt("get", 30, 3)>>]
    /\ keywords \in KeywordChoices
    /\ comment_tags = [given |-> TRUE, tags |-> <<(<<"T">>)>>]
    /\ InitRest

\* extract_liquid is about to be called on a source: `tree` is what the
\* source text says, no environment is bound to it yet
InitSource ==
    /\ \E k \in 1..(MaxStmts - 1) :
         \E d \in [1..k -> {"cT", "lit", "get", "chain", "dyn", "trans"}] :
           template = [env |-> None, tree |-> FlatTree(d, [i \in 1..k |-> 1])]
    /\ keywords = DefaultKeywords
    /\ comment_tags = [given |-> TRUE, tags |-> <<(<<"T">>)>>]
    /\ InitRest

Init == InitFlat \/ InitComments \/ InitForms \/ InitNested \/ InitSource

\* short templates for two extractions at once
InitTwo ==
    /\ \E k \in 1..(MaxStmts - 1) :
         \E d \in [1..k -> {"cT", "get", "chain", "dyn", "trans"}] :
           \E gp \in [1..k -> {0, 1, MaxGap}] :
             /\ gp[1] = 0
             /\ \A i \in 2..k : gp[i] # 0
             /\ template = [env |-> StandardEnv, tree |-> FlatTree(d, gp)]
    /\ keywords = DefaultKeywords
    /\ comment_tags \in {[given |-> FALSE, tags |-> <<>>],
                         [given |-> TRUE, tags |-> <<(<<"T">>)>>]}
    /\ InitRest

(***************************************************************************)
(* Actions: one next() of generator g runs one or more of these            *)
(***************************************************************************)
Buffer(g) == cells[gen[g].cell]

Top(g) == Head(gen[g].stack)

At(g, k) ==
    gen[g].status = "running" /\ gen[g].stack # <<>> /\ Top(g).k = k

\* generator g takes its next step
Advance(g) ==
    LET r == GenStep(gen[g], Buffer(g), template, keywords,
                     CommentTagsOrEmpty(comment_tags))
    IN  /\ gen' = [gen EXCEPT ![g] = r.gen]
        /\ cells' = [cells EXCEPT ![gen[g].cell] = r.buf]
        /\ UNCHANGED <<template, keywords, comment_tags, request, response>>

\* extract_from_template(...) is called and the generator first advanced
Start(g) ==
    /\ gen[g].status = "new"
    /\ template.env # None
    /\ LET list == NewCommentList(g, cells)
       IN  /\ gen' = [gen EXCEPT ![g] =
                        [StartStep(gen[g], list.cell, template) EXCEPT
                            !.afterOther = \E h \in Gens \ {g} : Finished(gen[h])]]
           /\ cells' = [cells EXCEPT ![list.cell] = list.buf]
    /\ UNCHANGED <<template, keywords, comment_tags, request, response>>

VisitComment(g) ==
    /\ At(g, "visit")
    /\ IsCommentNode(Top(g).node) /\ Top(g).node.hasText
    /\ Advance(g)

VisitTag(g) ==
    /\ At(g, "visit")
    /\ ~(IsCommentNode(Top(g).node) /\ Top(g).node.hasText)
    /\ IsTagCallSite(Top(g).node, keywords)
    /\ Advance(g)

VisitNode(g) ==
    /\ At(g, "visit")
    /\ ~(IsCommentNode(Top(g).node) /\ Top(g).node.hasText)
    /\ ~IsTagCallSite(Top(g).node, keywords)
    /\ Advance(g)

YieldTagMessage(g) ==
    /\ At(g, "msgs")
    /\ Top(g).msgs # <<>>
    /\ Advance(g)

EndMessages(g) ==
    /\ At(g, "msgs")
    /\ Top(g).msgs = <<>>
    /\ Advance(g)

VisitExpression(g) ==
    /\ At(g, "expr")
    /\ Advance(g)

\* the filter at hand is no call-site, or the chain is exhausted
NextFilter(g) ==
    /\ At(g, "filters")
    /\ \/ Top(g).idx > Len(Top(g).expr.filters)
       \/ /\ Top(g).idx <= Len(Top(g).expr.filters)
          /\ ~IsFilterCallSite(template.env,
                               Top(g).expr.filters[Top(g).idx].name, keywords)
    /\ Advance(g)

FilterResult(g) ==
    LET fr == Top(g)
        f == fr.expr.filters[fr.idx]
    IN  FilterMessage(FilterGet(template.env, f.name), fr.expr.expression, f,
                      fr.lineno)

YieldFilterMessage(g) ==
    /\ At(g, "filters")
    /\ Top(g).idx <= Len(Top(g).expr.filters)
    /\ IsFilterCallSite(template.env, Top(g).expr.filters[Top(g).idx].name,
                        keywords)
    /\ FilterResult(g) # None
    /\ Advance(g)

\* the hook returned None and the loop unpacks it
RaiseTypeError(g) ==
    /\ At(g, "filters")
    /\ Top(g).idx <= Len(Top(g).expr.filters)
    /\ IsFilterCallSite(template.env, Top(g).expr.filters[Top(g).idx].name,
                        keywords)
    /\ FilterResult(g) = None
    /\ Advance(g)

Resume(g) ==
    /\ At(g, "resume")
    /\ Advance(g)

GenNext(g) ==
    \/ Start(g)
    \/ VisitComment(g)
    \/ VisitTag(g)
    \/ VisitNode(g)
    \/ YieldTagMessage(g)
    \/ EndMessages(g)
    \/ VisitExpression(g)
    \/ NextFilter(g)
    \/ YieldFilterMessage(g)
    \/ RaiseTypeError(g)
    \/ Resume(g)

\* extract_liquid(fileobj, keywords, comment_tags, options):
\*   template = Template(fileobj.read(), **options or {})
\*   return extract_from_template(template, keywords, comment_tags)
\* No filter and no tag is registered first (the TODO in the code), and the
\* parser of the engine rejects a tag it does not know.
ExtractLiquid ==
    /\ template.env = None
    /\ gen[1].status = "new"
    /\ LET parsed == LiquidTemplate(template.tree)
       IN  IF parsed = None
           THEN /\ gen' = [gen EXCEPT ![1].status = "raised",
                                      ![1].via = "extract_liquid"]
                /\ UNCHANGED template
           ELSE /\ template' = parsed
                /\ gen' = [gen EXCEPT ![1].via = "extract_liquid"]
    /\ UNCHANGED <<keywords, comment_tags, cells, request, response>>

\* one extraction
Next == ExtractLiquid \/ GenNext(1)

Spec == Init /\ [][Next]_vars

\* two extractions over the same bound template, interleaved at will
NextTwo == \E g \in Gens : GenNext(g)

SpecTwo == InitTwo /\ [][NextTwo]_vars

(***************************************************************************)
(* Render time: values, strings and the render context                     *)
(*                                                                         *)
(* A str that the code scans or formats is a sequence of one-character     *)
(* strings.  A value of the render context is a record tagged with its     *)
(* Python type.  What a call does is an outcome: the exception it raised   *)
(* ("" when it returned) and the value it returned.                        *)
(***************************************************************************)
StrVal(chars) == [type |-> "str", v |-> chars]

IntVal(n) == [type |-> "int", v |-> n]

\* env.undefined(name): what context.resolve gives for a name nothing binds;
\* its type is the environment's, "Undefined" or "StrictUndefined"
Undefined(env, name) == [type |-> env.undefined, name |-> name]

Return(value) == [raised |-> "", value |-> value]

Raise(exception) == [raised |-> exception, value |-> None]

\* str(n) of an int
IntToStr(n) ==
    LET digits == <<"0", "1", "2", "3", "4", "5", "6", "7", "8", "9">>
        RECURSIVE NatToStr(_)
        NatToStr(m) ==
            IF m < 10 THEN <<digits[m + 1]>>
            ELSE NatToStr(m \div 10) \o <<digits[(m % 10) + 1]>>
    IN  IF n < 0 THEN <<"-">> \o NatToStr(-n) ELSE NatToStr(n)

\* int(val): of a str, blanks around, a sign, digits, ValueError otherwise;
\* TypeError for what is no number and no str
PyInt(val) ==
    LET digits == <<"0", "1", "2", "3", "4", "5", "6", "7", "8", "9">>
        IsDigit(c) == \E i \in 1..10 : digits[i] = c
        DigitValue(c) == (CHOOSE i \in 1..10 : digits[i] = c) - 1
        RECURSIVE DigitsToNat(_)
        DigitsToNat(ds) ==
            IF ds = <<>> THEN 0
            ELSE 10 * DigitsToNat(SubSeq(ds, 1, Len(ds) - 1))
                 + DigitValue(ds[Len(ds)])
        IntOfStr(chars) ==
            LET t == Strip(chars)
                signed == t # <<>> /\ t[1] \in {"-", "+"}
                ds == IF signed THEN Tail(t) ELSE t
            IN  IF ds # <<>> /\ \A i \in 1..Len(ds) : IsDigit(ds[i])
                THEN Return(IF signed /\ t[1] = "-" THEN -DigitsToNat(ds)
                              ELSE DigitsToNat(ds))
                ELSE Raise("ValueError")
    IN  CASE val.type = "int" -> Return(val.v)
          [] val.type = "bool" -> Return(IF val.v THEN 1 ELSE 0)
          [] val.type = "str" -> IntOfStr(val.v)
          [] OTHER -> Raise("TypeError")

\* bool(val): the truth of a value
Truthy(val) ==
    CASE val.type = "int" -> val.v # 0
      [] val.type = "bool" -> val.v
      [] val.type = "str" -> val.v # <<>>
      [] val.type = "list" -> val.v # <<>>
      [] OTHER -> FALSE

\* The render context is [scopes, env], the scopes innermost first.
\* context.extend(namespace): the namespace is pushed in front
Extend(context, namespace) ==
    [context EXCEPT !.scopes = <<namespace>> \o @]

\* context.resolve(name, default)
RECURSIVE Lookup(_, _, _)
Lookup(scopes, name, default) ==
    IF scopes = <<>> THEN default
    ELSE IF name \in DOMAIN Head(scopes) THEN Head(scopes)[name]
    ELSE Lookup(Tail(scopes), name, default)

\* context.resolve(name): the environment's undefined for a name not bound
Resolve(context, name) ==
    Lookup(context.scopes, name, Undefined(context.env, name))

\* to_liquid_string(val, autoescape): the str a value renders as.  str() of
\* a StrictUndefined raises.
RECURSIVE ToLiquidString(_, _)
ToLiquidString(val, autoescape) ==
    LET \* markupsafe.escape
        RECURSIVE Escape(_)
        Escape(chars) ==
            IF chars = <<>> THEN <<>>
            ELSE (CASE Head(chars) = "<" -> <<"&", "l", "t", ";">>
                    [] Head(chars) = "&" -> <<"&", "a", "m", "p", ";">>
                    [] OTHER -> <<Head(chars)>>)
                 \o Escape(Tail(chars))
        JoinItems[i \in 0..(IF val.type = "list" THEN Len(val.v) ELSE 0)] ==
            IF i = 0 THEN Return(<<>>)
            ELSE LET item == ToLiquidString(val.v[i], FALSE)
                 IN  IF JoinItems[i - 1].raised # "" THEN JoinItems[i - 1]
                     ELSE IF item.raised # "" THEN item
                     ELSE Return(JoinItems[i - 1].value \o item.value)
        plain ==
            CASE val.type = "str" -> Return(val.v)
              [] val.type = "bool" ->
                    Return(IF val.v THEN <<"t", "r", "u", "e">>
                           ELSE <<"f", "a", "l", "s", "e">>)
              [] val.type = "None" -> Return(<<>>)
              [] val.type = "int" -> Return(IntToStr(val.v))
              [] val.type = "list" -> JoinItems[Len(val.v)]
              [] val.type = "Undefined" -> Return(<<>>)
              [] val.type = "StrictUndefined" -> Raise("UndefinedError")
    IN  IF plain.raised = "" /\ autoescape THEN Return(Escape(plain.value))
        ELSE plain

\* %\((\w+)\)s matched at position i: the index of its last character, 0 if
\* there is no match
PlaceholderEnd(text, i) ==
    LET \* the end of the longest run of word characters (\w) from k on
        RECURSIVE WordRunEnd(_)
        WordRunEnd(k) ==
            IF k <= Len(text)
               /\ text[k] \notin {"%", "(", ")", " ", "!", ",", "<", ">", "&", ";",
                                  ":", "-", "+", ".", "{", "}", "'", "\n", "\t"}
            THEN WordRunEnd(k + 1)
            ELSE k - 1
        e == WordRunEnd(i + 2)
    IN  IF /\ text[i] = "%"
           /\ i + 1 <= Len(text) /\ text[i + 1] = "("
           /\ e >= i + 2 /\ e + 2 <= Len(text)
           /\ text[e + 1] = ")" /\ text[e + 2] = "s"
        THEN e + 2
        ELSE 0

\* re_vars.findall(message_text), re_vars = (?<!%)%\((\w+)\)s: the names, in
\* order of occurrence
FindVars(text) ==
    LET RECURSIVE from(_)
        from(i) ==
            IF i > Len(text) THEN <<>>
            ELSE IF PlaceholderEnd(text, i) # 0 /\ (i = 1 \/ text[i - 1] # "%")
            THEN <<SubSeq(text, i + 2, PlaceholderEnd(text, i) - 2)>>
                 \o from(PlaceholderEnd(text, i) + 1)
            ELSE from(i + 1)
    IN  from(1)

\* message_text % _vars: printf formatting of a str with a dict of str
PercentFormat(text, mapping) ==
    LET \* the index of the ")" that closes the "(" before position i, 0 if none
        RECURSIVE ClosingParen(_, _)
        ClosingParen(i, depth) ==
            IF i > Len(text) THEN 0
            ELSE IF text[i] = ")" THEN
                    (IF depth = 0 THEN i ELSE ClosingParen(i + 1, depth - 1))
            ELSE IF text[i] = "(" THEN ClosingParen(i + 1, depth + 1)
            ELSE ClosingParen(i + 1, depth)
        \* flags, width and precision of a conversion: the index after them
        RECURSIVE SkipFlags(_)
        SkipFlags(i) ==
            IF i <= Len(text)
               /\ (text[i] \in {"-", "+", " ", "#", "."}
                   \/ text[i] \in {"0", "1", "2", "3", "4", "5", "6", "7", "8", "9"})
            THEN SkipFlags(i + 1)
            ELSE i
        \* one conversion of a str value: %s gives the str, a numeric
        \* conversion wants a number, any other character is no conversion
        Convert(conversion, value) ==
            CASE conversion = "s" -> Return(value)
              [] conversion \in {"r", "a"} -> Return(<<"'">> \o value \o <<"'">>)
              [] conversion \in {"d", "i", "o", "u", "x", "X", "e", "E", "f",
                                 "F", "g", "G"}
                    -> Raise("TypeError")
              [] conversion = "c" ->
                    IF Len(value) = 1 THEN Return(value) ELSE Raise("TypeError")
              [] OTHER -> Raise("ValueError")
        RECURSIVE from(_, _)
        from(i, acc) ==
            IF i > Len(text) THEN Return(acc)
            ELSE IF text[i] # "%" THEN from(i + 1, Append(acc, text[i]))
            ELSE IF i = Len(text) THEN Raise("ValueError")
            ELSE IF text[i + 1] = "%" THEN from(i + 2, Append(acc, "%"))
            ELSE IF text[i + 1] = "(" THEN
                LET j == ClosingParen(i + 2, 0)
                    key == SubSeq(text, i + 2, j - 1)
                    c == SkipFlags(j + 1)
                IN  IF j = 0 THEN Raise("ValueError")
                    ELSE IF key \notin DOMAIN mapping THEN Raise("KeyError")
                    ELSE IF c > Len(text) THEN Raise("ValueError")
                    ELSE LET r == Convert(text[c], mapping[key])
                         IN  IF r.raised # "" THEN r
                             ELSE from(c + 1, acc \o r.value)
            ELSE
                \* no key: the dict itself is the one argument
                LET c == SkipFlags(i + 1)
                IN  IF c > Len(text) THEN Raise("ValueError")
                    ELSE IF text[c] \in {"s", "r", "a"}
                    THEN from(c + 1, acc \o <<"{">>
                                \o (IF DOMAIN mapping = {} THEN <<>> ELSE <<"...">>)
                                \o <<"}">>)
                    ELSE Convert(text[c], <<"{", "}">>)
    IN  from(1, <<>>)

\* format_message resolving the names among the keyword arguments only
FormatMessageKwargsOnly(context, message_text, message_vars) ==
    LET names == FindVars(message_text)
        bound == {i \in 1..Len(names) : names[i] \in DOMAIN message_vars}
        values == [i \in bound |->
                     ToLiquidString(message_vars[names[i]], context.env.autoescape)]
        failed == {i \in bound : values[i].raised # ""}
    IN  IF failed # {}
        THEN values[CHOOSE i \in failed : \A k \in failed : i <= k]
        ELSE PercentFormat(message_text,
                [k \in {names[i] : i \in bound} |->
                    values[CHOOSE i \in bound : names[i] = k].value])

\* format_message with the keyword arguments behind the variables
FormatMessageAmbientFirst(context, message_text, message_vars) ==
    LET extended == [context EXCEPT !.scopes = @ \o <<message_vars>>]
        names == FindVars(message_text)
        values == [i \in 1..Len(names) |->
                     ToLiquidString(Resolve(extended, names[i]),
                                    context.env.autoescape)]
        failed == {i \in 1..Len(names) : values[i].raised # ""}
    IN  IF failed # {}
        THEN values[CHOOSE i \in failed : \A k \in failed : i <= k]
        ELSE PercentFormat(message_text,
                [k \in {names[i] : i \in 1..Len(names)} |->
                    values[CHOOSE i \in 1..Len(names) : names[i] = k].value])

\* BaseTranslateFilter.format_message(context, message_text, message_vars)
FormatMessage(context, message_text, message_vars) ==
    LET extended == Extend(context, message_vars)
        names == FindVars(message_text)
        values == [i \in 1..Len(names) |->
                     ToLiquidString(Resolve(extended, names[i]),
                                    context.env.autoescape)]
        failed == {i \in 1..Len(names) : values[i].raised # ""}
    IN  IF failed # {}
        THEN values[CHOOSE i \in failed : \A k \in failed : i <= k]
        ELSE PercentFormat(message_text,
                [k \in {names[i] : i \in 1..Len(names)} |->
                    values[CHOOSE i \in 1..Len(names) : names[i] = k].value])

(***************************************************************************)
(* Render time: the catalogs and the translation filters                   *)
(*                                                                         *)
(* In a tree that is rendered the value of a string literal is a sequence  *)
(* of characters; names (of variables and keyword arguments) are strings   *)
(* and NameChars gives their characters.                                   *)
(***************************************************************************)
NameChars(name) ==
    CASE name = "plural" -> <<"p", "l", "u", "r", "a", "l">>
      [] name = "count" -> <<"c", "o", "u", "n", "t">>
      [] name = "context" -> <<"c", "o", "n", "t", "e", "x", "t">>
      [] name = "translations" ->
            <<"t", "r", "a", "n", "s", "l", "a", "t", "i", "o", "n", "s">>
      [] name = "x" -> <<"x">>
      [] name = "y" -> <<"y">>
      [] name = "n" -> <<"n">>
      [] name = "some" -> <<"s", "o", "m", "e">>
      [] name = "other" -> <<"o", "t", "h", "e", "r">>
      [] name = "you" -> <<"y", "o", "u">>

\* The catalogs a render context can hold: gettext.NullTranslations, which
\* is also every filter's and tag's default, and the tests' MockTranslations
NullTranslations == [type |-> "Translations", class |-> "NullTranslations"]

MockTranslations == [type |-> "Translations", class |-> "MockTranslations"]

\* a catalog whose texts name the reader: the message followed by " %(x)s"
NamingTranslations == [type |-> "Translations", class |-> "NamingTranslations"]

CatalogOp(name, args) == [name |-> name, args |-> args]

\* One call of a catalog operation.  `call` is [name, args]: args are
\* (message), (singular, plural, n), (context, message) or
\* (context, singular, plural, n), n an integer.  NullTranslations has
\* pgettext and npgettext only when `pgettext_available`.
CatalogCall(translations, pgettext_available, call) ==
    LET name == call.name
        a == call.args
        null == translations.class = "NullTranslations"
        \* MockTranslations._upper: upper case outside the %(name)s
        \* placeholders (RE_VARS of the mock has no look-behind)
        lower == <<"a", "b", "c", "d", "e", "f", "g", "h", "i", "j", "k", "l",
                   "m", "n", "o", "p", "q", "r", "s", "t", "u", "v", "w", "x",
                   "y", "z">>
        upper == <<"A", "B", "C", "D", "E", "F", "G", "H", "I", "J", "K", "L",
                   "M", "N", "O", "P", "Q", "R", "S", "T", "U", "V", "W", "X",
                   "Y", "Z">>
        UpperChar(c) ==
            IF \E i \in 1..26 : lower[i] = c
            THEN upper[CHOOSE i \in 1..26 : lower[i] = c]
            ELSE c
        RECURSIVE upper_from(_, _)
        upper_from(message, i) ==
            IF i > Len(message) THEN <<>>
            ELSE IF PlaceholderEnd(message, i) # 0
            THEN SubSeq(message, i, PlaceholderEnd(message, i))
                 \o upper_from(message, PlaceholderEnd(message, i) + 1)
            ELSE <<UpperChar(message[i])>> \o upper_from(message, i + 1)
        naming == translations.class = "NamingTranslations"
        form(text) ==
            IF null THEN text
            ELSE IF naming THEN text \o <<" ", "%", "(", "x", ")", "s">>
            ELSE upper_from(text, 1)
        prefix(ctx) == IF null \/ naming THEN <<>> ELSE ctx \o <<":", ":">>
    IN  CASE name = "gettext" -> Return(form(a[1]))
          [] name = "ngettext" ->
                IF null
                THEN Return(IF a[3] = 1 THEN a[1] ELSE a[2])
                ELSE Return(form(IF a[3] > 1 THEN a[2] ELSE a[1]))
          [] name = "pgettext" ->
                IF null /\ ~pgettext_available THEN Raise("AttributeError")
                ELSE Return(prefix(a[1]) \o form(a[2]))
          [] name = "npgettext" ->
                IF null /\ ~pgettext_available THEN Raise("AttributeError")
                ELSE IF null
                THEN Return(IF a[4] = 1 THEN a[2] ELSE a[3])
                ELSE Return(prefix(a[1]) \o form(IF a[4] > 1 THEN a[3] ELSE a[2]))

\* _resolve_translations with the tests' catalog as the default
ResolveTranslationsMockDefault(context) ==
    Lookup(context.scopes, NameChars("translations"), MockTranslations)

\* _resolve_translations: context.resolve(translations_var, default)
ResolveTranslations(context) ==
    Lookup(context.scopes, NameChars("translations"), NullTranslations)

\* str(val) of Python, for the values a message context can be
PyStr(val) ==
    CASE val.type = "str" -> val.v
      [] val.type = "int" -> IntToStr(val.v)
      [] val.type = "bool" ->
            IF val.v THEN <<"T", "r", "u", "e">> ELSE <<"F", "a", "l", "s", "e">>
      [] OTHER -> <<>>

\* _count(val): None, or the int.  `val in (None, False, True)` is == of
\* Python, under which 0 is False and 1 is True
Count(val) ==
    IF \/ val.type = "None"
       \/ val.type = "bool"
       \/ val.type = "int" /\ val.v \in {0, 1}
    THEN Return(None)
    ELSE LET n == PyInt(val)
         IN  IF n.raised = "ValueError" THEN Return(None)
             ELSE IF n.raised # "" THEN n
             ELSE Return(IntVal(n.value))

\* int_arg(val, default=1) of the host engine: int(val), the default on
\* ValueError
IntArg(val, default) ==
    LET n == PyInt(val)
    IN  IF n.raised = "ValueError" THEN Return(default) ELSE n

\* dict without one key
Without(d, key) == [k \in DOMAIN d \ {key} |-> d[k]]

\* What a filter or tag call did: the catalog operations it invoked, in
\* order, and its outcome; `markup` says the text returned is marked safe
Done(ops, outcome, markup) ==
    [ops |-> ops, raised |-> outcome.raised, value |-> outcome.value,
     markup |-> markup]

\* the tail of __call__ without the interpolation
FilterTailNoFormat(self, context, op, pgettext_available, kwargs) ==
    LET text == CatalogCall(ResolveTranslations(context), pgettext_available, op)
    IN  IF text.raised # "" THEN Done(<<op>>, text, FALSE)
        ELSE Done(<<op>>, text, context.env.autoescape)

\* The tail every filter's __call__ shares, from the catalog's answer on:
\*   if auto_escape: text = Markup(text)
\*   if self.message_interpolation: text = self.format_message(...)
FilterTail(self, context, op, pgettext_available, kwargs) ==
    LET text == CatalogCall(ResolveTranslations(context), pgettext_available, op)
    IN  IF text.raised # "" THEN Done(<<op>>, text, FALSE)
        ELSE IF self.message_interpolation
        THEN Done(<<op>>, FormatMessage(context, text.value, kwargs),
                  context.env.autoescape)
        ELSE Done(<<op>>, text, context.env.autoescape)

\* @liquid_filter: a TypeError of the call is raised as FilterArgumentError
LiquidFilter(done) ==
    IF done.raised = "TypeError"
    THEN [done EXCEPT !.raised = "FilterArgumentError"]
    ELSE done

\* Translate.__call__(left, message_context=None, *, context, **kwargs)
TranslateCall(self, left, args, kwargs, context, pgettext_available) ==
    LET esc == context.env.autoescape /\ self.autoescape_message
        message == ToLiquidString(left, esc)
        message_context ==
            IF args # <<>> /\ Truthy(args[1]) THEN args[1] ELSE None
        plural == DictGet(kwargs, NameChars("plural"))
        rest == Without(kwargs, NameChars("plural"))
        n == Count(DictGet(rest, NameChars("count")))
        plural_text == ToLiquidString(plural, esc)
        with_context == pgettext_available /\ message_context # None
    IN  LiquidFilter(
        IF Len(args) > 1 THEN Done(<<>>, Raise("TypeError"), FALSE)
        ELSE IF message.raised # "" THEN Done(<<>>, message, FALSE)
        ELSE IF n.raised # "" THEN Done(<<>>, n, FALSE)
        ELSE IF plural # None /\ n.value # None
        THEN IF plural_text.raised # "" THEN Done(<<>>, plural_text, FALSE)
             ELSE FilterTail(self, context,
                    IF with_context
                    THEN CatalogOp("npgettext",
                            <<PyStr(message_context), message.value,
                              plural_text.value, n.value.v>>)
                    ELSE CatalogOp("ngettext",
                            <<message.value, plural_text.value, n.value.v>>),
                    pgettext_available, rest)
        ELSE FilterTail(self, context,
                IF with_context
                THEN CatalogOp("pgettext", <<PyStr(message_context), message.value>>)
                ELSE CatalogOp("gettext", <<message.value>>),
                pgettext_available, rest))

\* GetText.__call__(left, *, context, **kwargs)
GetTextCall(self, left, args, kwargs, context, pgettext_available) ==
    LET esc == context.env.autoescape /\ self.autoescape_message
        message == ToLiquidString(left, esc)
    IN  LiquidFilter(
        IF Len(args) # 0 THEN Done(<<>>, Raise("TypeError"), FALSE)
        ELSE IF message.raised # "" THEN Done(<<>>, message, FALSE)
        ELSE FilterTail(self, context, CatalogOp("gettext", <<message.value>>),
                        pgettext_available, kwargs))

\* NGetText.__call__(left, plural, count, *, context, **kwargs)
NGetTextCall(self, left, args, kwargs, context, pgettext_available) ==
    LET esc == context.env.autoescape /\ self.autoescape_message
        message == ToLiquidString(left, esc)
        plural == ToLiquidString(args[1], esc)
        count == IntArg(args[2], 1)
    IN  LiquidFilter(
        IF Len(args) # 2 THEN Done(<<>>, Raise("TypeError"), FALSE)
        ELSE IF message.raised # "" THEN Done(<<>>, message, FALSE)
        ELSE IF plural.raised # "" THEN Done(<<>>, plural, FALSE)
        ELSE IF count.raised # "" THEN Done(<<>>, count, FALSE)
        ELSE FilterTail(self, context,
                CatalogOp("ngettext", <<message.value, plural.value, count.value>>),
                pgettext_available, kwargs))

\* PGetText.__call__(left, message_context, *, context, **kwargs)
PGetTextCall(self, left, args, kwargs, context, pgettext_available) ==
    LET esc == context.env.autoescape /\ self.autoescape_message
        message == ToLiquidString(left, esc)
        message_context == ToLiquidString(args[1], esc)
    IN  LiquidFilter(
        IF Len(args) # 1 THEN Done(<<>>, Raise("TypeError"), FALSE)
        ELSE IF message.raised # "" THEN Done(<<>>, message, FALSE)
        ELSE IF message_context.raised # "" THEN Done(<<>>, message_context, FALSE)
        ELSE FilterTail(self, context,
                CatalogOp("pgettext", <<message_context.value, message.value>>),
                pgettext_available, kwargs))

\* NPGetText.__call__(left, message_context, plural, count, *, context,
\* **kwargs)
NPGetTextCall(self, left, args, kwargs, context, pgettext_available) ==
    LET esc == context.env.autoescape /\ self.autoescape_message
        message == ToLiquidString(left, esc)
        message_context == ToLiquidString(args[1], esc)
        plural == ToLiquidString(args[2], esc)
        count == IntArg(args[3], 1)
    IN  LiquidFilter(
        IF Len(args) # 3 THEN Done(<<>>, Raise("TypeError"), FALSE)
        ELSE IF message.raised # "" THEN Done(<<>>, message, FALSE)
        ELSE IF message_context.raised # "" THEN Done(<<>>, message_context, FALSE)
        ELSE IF plural.raised # "" THEN Done(<<>>, plural, FALSE)
        ELSE IF count.raised # "" THEN Done(<<>>, count, FALSE)
        ELSE FilterTail(self, context,
                CatalogOp("npgettext",
                    <<message_context.value, message.value, plural.value,
                      count.value>>),
                pgettext_available, kwargs))

\* expression.evaluate(context) of a literal or a one-name identifier
Evaluate(expr, context) ==
    CASE expr.type = "StringLiteral" -> StrVal(expr.value)
      [] expr.type = "IntegerLiteral" -> IntVal(expr.value)
      [] expr.type = "Identifier" -> Resolve(context, NameChars(expr.name))

\* {k: v.evaluate(context) for k, v in args.items()}
EvaluateAll(args, context) ==
    [k \in {NameChars(n) : n \in DOMAIN args} |->
        Evaluate(args[CHOOSE n \in DOMAIN args : NameChars(n) = k], context)]

\* The host engine's call of a filter at render time: the left value and the
\* arguments are evaluated, then the registered callable is applied
ApplyFilter(filter_func, self, left, f, context, pgettext_available) ==
    LET val == Evaluate(left, context)
        args == [i \in 1..Len(f.args) |-> Evaluate(f.args[i], context)]
        kwargs == EvaluateAll(f.kwargs, context)
    IN  CASE filter_func = "Translate" ->
                TranslateCall(self, val, args, kwargs, context, pgettext_available)
          [] filter_func = "GetText" ->
                GetTextCall(self, val, args, kwargs, context, pgettext_available)
          [] filter_func = "NGetText" ->
                NGetTextCall(self, val, args, kwargs, context, pgettext_available)
          [] filter_func = "PGetText" ->
                PGetTextCall(self, val, args, kwargs, context, pgettext_available)
          [] filter_func = "NPGetText" ->
                NPGetTextCall(self, val, args, kwargs, context, pgettext_available)

(***************************************************************************)
(* Render time: the translate tag                                          *)
(***************************************************************************)
\* TranslateNode.resolve_count: to_int(block_scope.get("count", 1)), 1 on
\* ValueError
ResolveCount(block_scope) ==
    IF NameChars("count") \notin DOMAIN block_scope THEN Return(1)
    ELSE LET n == PyInt(block_scope[NameChars("count")])
         IN  IF n.raised = "ValueError" THEN Return(1) ELSE n

\* TranslateNode.resolve_message_context: block_scope.pop("context", None),
\* as a str if truthy
ResolveMessageContext(block_scope) ==
    LET message_context == DictGet(block_scope, NameChars("context"))
    IN  IF Truthy(message_context) THEN StrVal(PyStr(message_context)) ELSE None

\* TranslateNode.gettext choosing by the plural body alone
TagGetTextPluralAlways(node, count, message_context) ==
    IF node.plural # None
    THEN [op |-> IF message_context # None
                 THEN CatalogOp("npgettext",
                        <<message_context.v, node.singular, node.plural.text, count>>)
                 ELSE CatalogOp("ngettext",
                        <<node.singular, node.plural.text, count>>),
          vars |-> node.singular_vars \o node.plural.vars]
    ELSE [op |-> IF message_context # None
                 THEN CatalogOp("pgettext", <<message_context.v, node.singular>>)
                 ELSE CatalogOp("gettext", <<node.singular>>),
          vars |-> node.singular_vars]

\* TranslateNode.gettext: the catalog operation, and the names to resolve
TagGetText(node, count, message_context) ==
    IF node.plural # None /\ count # 0
    THEN [op |-> IF message_context # None
                 THEN CatalogOp("npgettext",
                        <<message_context.v, node.singular, node.plural.text, count>>)
                 ELSE CatalogOp("ngettext",
                        <<node.singular, node.plural.text, count>>),
          vars |-> node.singular_vars \o node.plural.vars]
    ELSE [op |-> IF message_context # None
                 THEN CatalogOp("pgettext", <<message_context.v, node.singular>>)
                 ELSE CatalogOp("gettext", <<node.singular>>),
          vars |-> node.singular_vars]

\* TranslateNode.format_message: the filters' format_message, line for line
TagFormatMessage(context, message_text, message_vars) ==
    LET extended == Extend(context, message_vars)
        names == FindVars(message_text)
        values == [i \in 1..Len(names) |->
                     ToLiquidString(Resolve(extended, names[i]),
                                    context.env.autoescape)]
        failed == {i \in 1..Len(names) : values[i].raised # ""}
    IN  IF failed # {}
        THEN values[CHOOSE i \in failed : \A k \in failed : i <= k]
        ELSE PercentFormat(message_text,
                [k \in {names[i] : i \in 1..Len(names)} |->
                    values[CHOOSE i \in 1..Len(names) : names[i] = k].value])

\* TranslateNode.render_to_output
RenderToOutput(node, context, pgettext_available) ==
    LET translations == ResolveTranslations(context)
        namespace == EvaluateAll(node.args, context)
        count == ResolveCount(namespace)
        message_context == ResolveMessageContext(namespace)
        block_scope == Without(namespace, NameChars("context"))
        extended == Extend(context, block_scope)
        got == TagGetText(node, count.value, message_context)
        text == CatalogCall(translations, pgettext_available, got.op)
        message_vars ==
            [v \in {got.vars[i] : i \in 1..Len(got.vars)} |-> Resolve(extended, v)]
    IN  IF count.raised # "" THEN Done(<<>>, count, FALSE)
        ELSE IF text.raised # "" THEN Done(<<got.op>>, text, FALSE)
        ELSE Done(<<got.op>>, TagFormatMessage(context, text.value, message_vars),
                  context.env.autoescape)

\* render_to_output_async with the message variables resolved after the
\* block scope was popped
RenderToOutputAsyncLateVars(node, context, pgettext_available) ==
    LET evaluate_async(expr) ==
            CASE expr.type = "StringLiteral" -> StrVal(expr.value)
              [] expr.type = "IntegerLiteral" -> IntVal(expr.value)
              [] expr.type = "Identifier" -> Resolve(context, NameChars(expr.name))
        translations == ResolveTranslations(context)
        namespace ==
            [k \in {NameChars(n) : n \in DOMAIN node.args} |->
                evaluate_async(node.args[CHOOSE n \in DOMAIN node.args :
                                            NameChars(n) = k])]
        count == ResolveCount(namespace)
        message_context == ResolveMessageContext(namespace)
        got == TagGetText(node, count.value, message_context)
        text == CatalogCall(translations, pgettext_available, got.op)
        message_vars ==
            [v \in {got.vars[i] : i \in 1..Len(got.vars)} |-> Resolve(context, v)]
    IN  IF count.raised # "" THEN Done(<<>>, count, FALSE)
        ELSE IF text.raised # "" THEN Done(<<got.op>>, text, FALSE)
        ELSE Done(<<got.op>>, TagFormatMessage(context, text.value, message_vars),
                  context.env.autoescape)

\* TranslateNode.render_to_output_async: the arguments are evaluated with
\* evaluate_async (of a literal its value, of an identifier what the context
\* holds), the rest is written as in render_to_output
RenderToOutputAsync(node, context, pgettext_available) ==
    LET evaluate_async(expr) ==
            CASE expr.type = "StringLiteral" -> StrVal(expr.value)
              [] expr.type = "IntegerLiteral" -> IntVal(expr.value)
              [] expr.type = "Identifier" -> Resolve(context, NameChars(expr.name))
        translations == ResolveTranslations(context)
        namespace ==
            [k \in {NameChars(n) : n \in DOMAIN node.args} |->
                evaluate_async(node.args[CHOOSE n \in DOMAIN node.args :
                                            NameChars(n) = k])]
        count == ResolveCount(namespace)
        message_context == ResolveMessageContext(namespace)
        block_scope == Without(namespace, NameChars("context"))
        extended == Extend(context, block_scope)
        got == TagGetText(node, count.value, message_context)
        text == CatalogCall(translations, pgettext_available, got.op)
        message_vars ==
            [v \in {got.vars[i] : i \in 1..Len(got.vars)} |-> Resolve(extended, v)]
    IN  IF count.raised # "" THEN Done(<<>>, count, FALSE)
        ELSE IF text.raised # "" THEN Done(<<got.op>>, text, FALSE)
        ELSE Done(<<got.op>>, TagFormatMessage(context, text.value, message_vars),
                  context.env.autoescape)

(***************************************************************************)
(* Render time: what a call leaves of the scopes of the context            *)
(*                                                                         *)
(* `with context.extend(namespace):` of the host engine pushes the         *)
(* namespace and pops it when the block is left, by return or by raise.    *)
(***************************************************************************)
\* The scopes after a filter call that came to `done`.  The call pushes a
\* namespace only in format_message, which it reaches when it interpolates
\* and the catalog has answered.
ScopesAfterFilter(self, f, context, pgettext_available, done) ==
    LET kwargs == EvaluateAll(f.kwargs, context)
        message_vars ==
            IF f.name = "t" THEN Without(kwargs, NameChars("plural")) ELSE kwargs
        formatted ==
            /\ self.message_interpolation
            /\ Len(done.ops) = 1
            /\ CatalogCall(ResolveTranslations(context), pgettext_available,
                           done.ops[1]).raised = ""
        pushed == <<message_vars>> \o context.scopes
    IN  IF formatted THEN Tail(pushed) ELSE context.scopes

\* the scopes after a render in which a block left by a raise keeps its
\* namespace
ScopesAfterRenderNoPopOnRaise(node, context, pgettext_available, done) ==
    LET namespace == EvaluateAll(node.args, context)
        count == ResolveCount(namespace)
        block_scope == Without(namespace, NameChars("context"))
        in_block == <<block_scope>> \o context.scopes
        answered ==
            /\ Len(done.ops) = 1
            /\ CatalogCall(ResolveTranslations(context), pgettext_available,
                           done.ops[1]).raised = ""
        got == TagGetText(node, count.value, ResolveMessageContext(namespace))
        message_vars ==
            [v \in {got.vars[i] : i \in 1..Len(got.vars)} |->
                Resolve([context EXCEPT !.scopes = in_block], v)]
        in_format == <<message_vars>> \o Tail(in_block)
    IN  IF count.raised # "" THEN context.scopes
        ELSE IF ~answered THEN in_block
        ELSE IF done.raised # "" THEN in_format
        ELSE Tail(in_format)

\* The scopes after a render of the translate tag that came to `done`:
\* render_to_output pushes the evaluated arguments around gettext and the
\* resolution of the variables, format_message pushes the message variables
ScopesAfterRender(node, context, pgettext_available, done) ==
    LET namespace == EvaluateAll(node.args, context)
        count == ResolveCount(namespace)
        block_scope == Without(namespace, NameChars("context"))
        in_block == <<block_scope>> \o context.scopes
        answered ==
            /\ Len(done.ops) = 1
            /\ CatalogCall(ResolveTranslations(context), pgettext_available,
                           done.ops[1]).raised = ""
        got == TagGetText(node, count.value, ResolveMessageContext(namespace))
        message_vars ==
            [v \in {got.vars[i] : i \in 1..Len(got.vars)} |->
                Resolve([context EXCEPT !.scopes = in_block], v)]
        in_format == <<message_vars>> \o Tail(in_block)
    IN  IF count.raised # "" THEN context.scopes
        ELSE IF ~answered THEN Tail(in_block)
        ELSE Tail(in_format)

(***************************************************************************)
(* Registration of the filters                                             *)
(***************************************************************************)
\* A filter object: its class and where it was made.  Two objects are the
\* same object when both are equal.
FilterObject(class, made) == [class |-> class, made |-> made]

\* register_translation_filters replacing whether or not `replace` is set
RegisterTranslationFiltersAlways(filters, replace) ==
    LET default_filters ==
            <<"Translate", "GetText", "NGetText", "PGetText", "NPGetText">>
        name == [c \in {default_filters[i] : i \in 1..5} |->
                    CHOOSE n \in DOMAIN TranslationFilterClass :
                        TranslationFilterClass[n] = c]
        add_filter(fs, n, f) ==
            [k \in DOMAIN fs \cup {n} |-> IF k = n THEN f ELSE fs[k]]
        RECURSIVE loop(_, _)
        loop(fs, i) ==
            IF i > Len(default_filters) THEN fs
            ELSE loop(add_filter(fs, name[default_filters[i]],
                        FilterObject(default_filters[i],
                                     "register_translation_filters")),
                      i + 1)
    IN  loop(filters, 1)

\* register_translation_filters(env, replace): env.filters afterwards
RegisterTranslationFilters(filters, replace) ==
    LET default_filters ==
            <<"Translate", "GetText", "NGetText", "PGetText", "NPGetText">>
        \* _filter.name
        name == [c \in {default_filters[i] : i \in 1..5} |->
                    CHOOSE n \in DOMAIN TranslationFilterClass :
                        TranslationFilterClass[n] = c]
        \* env.add_filter(name, func)
        add_filter(fs, n, f) ==
            [k \in DOMAIN fs \cup {n} |-> IF k = n THEN f ELSE fs[k]]
        RECURSIVE loop(_, _)
        loop(fs, i) ==
            IF i > Len(default_filters) THEN fs
            ELSE IF replace \/ name[default_filters[i]] \notin DOMAIN fs
            THEN loop(add_filter(fs, name[default_filters[i]],
                        FilterObject(default_filters[i],
                                     "register_translation_filters")),
                      i + 1)
            ELSE loop(fs, i + 1)
    IN  loop(filters, 1)

(***************************************************************************)
(* Parse time: the bodies of the translate tag                             *)
(***************************************************************************)
\* a literal of the template text, with its text
TextNode(id, linenum, value) ==
    [type |-> "LiteralNode", id |-> id, tok |-> Token("literal", value, linenum),
     children |-> <<>>]

\* raise TranslationSyntaxError(..., linenum=linenum)
TranslationSyntaxError(linenum) ==
    [raised |-> "TranslationSyntaxError", value |-> None, linenum |-> linenum]

\* parse_message_block taking a variable with filters as a bare variable
MessageBlockPartFiltersAllowed(node) ==
    LET \* str.replace("%", "%%")
        RECURSIVE EscapePercent(_)
        EscapePercent(chars) ==
            IF chars = <<>> THEN <<>>
            ELSE (IF Head(chars) = "%" THEN <<"%", "%">> ELSE <<Head(chars)>>)
                 \o EscapePercent(Tail(chars))
    IN  IF node.type = "LiteralNode"
        THEN Return([text |-> EscapePercent(node.tok.value), vars |-> <<>>])
        ELSE IF node.type = "StatementNode"
        THEN LET expression == node.children[1].expression
             IN  IF /\ expression.type = "FilteredExpression"
                    /\ expression.expression.type = "Identifier"
                    /\ expression.expression.path[1].kind = "str"
                 THEN IF Len(expression.expression.path) > 1
                      THEN TranslationSyntaxError(node.tok.linenum)
                      ELSE LET var == NameChars(expression.expression.path[1].value)
                           IN  Return([text |-> <<"%", "(">> \o var \o <<")", "s">>,
                                       vars |-> <<var>>])
                 ELSE TranslationSyntaxError(node.tok.linenum)
        ELSE TranslationSyntaxError(node.tok.linenum)

\* One statement of a body, as parse_message_block takes it: the text it
\* adds and the variable it names, or the error it raises
MessageBlockPart(node) ==
    LET \* str.replace("%", "%%")
        RECURSIVE EscapePercent(_)
        EscapePercent(chars) ==
            IF chars = <<>> THEN <<>>
            ELSE (IF Head(chars) = "%" THEN <<"%", "%">> ELSE <<Head(chars)>>)
                 \o EscapePercent(Tail(chars))
    IN  IF node.type = "LiteralNode"
        THEN Return([text |-> EscapePercent(node.tok.value), vars |-> <<>>])
        ELSE IF node.type = "StatementNode"
        THEN LET expression == node.children[1].expression
             IN  IF /\ expression.type = "FilteredExpression"
                    /\ expression.expression.type = "Identifier"
                    /\ expression.expression.path[1].kind = "str"
                 THEN IF Len(expression.expression.path) > 1
                      THEN TranslationSyntaxError(node.tok.linenum)
                      ELSE IF expression.filters # <<>>
                      THEN TranslationSyntaxError(node.tok.linenum)
                      ELSE LET var == NameChars(expression.expression.path[1].value)
                           IN  Return([text |-> <<"%", "(">> \o var \o <<")", "s">>,
                                       vars |-> <<var>>])
                 ELSE TranslationSyntaxError(node.tok.linenum)
        ELSE TranslationSyntaxError(node.tok.linenum)

\* parse_message_block with the variables listed last to first
ParseMessageBlockVarsReversed(block) ==
    LET statements == [i \in 1..Len(block.children) |-> block.children[i].node]
        parts == [i \in 1..Len(statements) |-> MessageBlockPart(statements[i])]
        failed == {i \in 1..Len(parts) : parts[i].raised # ""}
        joined == Flatten([i \in 1..Len(parts) |-> parts[i].value.text])
        \* re_whitespace.sub(" ", msg.strip()), re_whitespace = \s*\n\s*: after
        \* the strip, every run of whitespace that holds a line break becomes
        \* one blank
        space == {" ", "\n", "\t"}
        RECURSIVE StripWhitespace(_)
        StripWhitespace(chars) ==
            IF chars # <<>> /\ Head(chars) \in space
            THEN StripWhitespace(Tail(chars))
            ELSE IF chars # <<>> /\ chars[Len(chars)] \in space
            THEN StripWhitespace(SubSeq(chars, 1, Len(chars) - 1))
            ELSE chars
        chars == StripWhitespace(joined)
        \* the end of the run of whitespace that starts at i (i - 1 if none)
        RECURSIVE RunEnd(_)
        RunEnd(i) ==
            IF i <= Len(chars) /\ chars[i] \in space THEN RunEnd(i + 1) ELSE i - 1
        RECURSIVE trim_from(_)
        trim_from(i) ==
            IF i > Len(chars) THEN <<>>
            ELSE IF RunEnd(i) >= i /\ \E k \in i..RunEnd(i) : chars[k] = "\n"
            THEN <<" ">> \o trim_from(RunEnd(i) + 1)
            ELSE IF RunEnd(i) >= i
            THEN SubSeq(chars, i, RunEnd(i)) \o trim_from(RunEnd(i) + 1)
            ELSE <<chars[i]>> \o trim_from(i + 1)
        msg == trim_from(1)
    IN  IF failed # {}
        THEN parts[CHOOSE i \in failed : \A k \in failed : i <= k]
        ELSE Return(MessageBlock(block, msg,
                        Flatten([i \in 1..Len(parts) |->
                            parts[Len(parts) + 1 - i].value.vars])))

\* TranslateTag.parse_message_block(block), trim_messages being True
ParseMessageBlock(block) ==
    LET statements == [i \in 1..Len(block.children) |-> block.children[i].node]
        parts == [i \in 1..Len(statements) |-> MessageBlockPart(statements[i])]
        failed == {i \in 1..Len(parts) : parts[i].raised # ""}
        joined == Flatten([i \in 1..Len(parts) |-> parts[i].value.text])
        \* re_whitespace.sub(" ", msg.strip()), re_whitespace = \s*\n\s*: after
        \* the strip, every run of whitespace that holds a line break becomes
        \* one blank
        space == {" ", "\n", "\t"}
        RECURSIVE StripWhitespace(_)
        StripWhitespace(chars) ==
            IF chars # <<>> /\ Head(chars) \in space
            THEN StripWhitespace(Tail(chars))
            ELSE IF chars # <<>> /\ chars[Len(chars)] \in space
            THEN StripWhitespace(SubSeq(chars, 1, Len(chars) - 1))
            ELSE chars
        chars == StripWhitespace(joined)
        \* the end of the run of whitespace that starts at i (i - 1 if none)
        RECURSIVE RunEnd(_)
        RunEnd(i) ==
            IF i <= Len(chars) /\ chars[i] \in space THEN RunEnd(i + 1) ELSE i - 1
        RECURSIVE trim_from(_)
        trim_from(i) ==
            IF i > Len(chars) THEN <<>>
            ELSE IF RunEnd(i) >= i /\ \E k \in i..RunEnd(i) : chars[k] = "\n"
            THEN <<" ">> \o trim_from(RunEnd(i) + 1)
            ELSE IF RunEnd(i) >= i
            THEN SubSeq(chars, i, RunEnd(i)) \o trim_from(RunEnd(i) + 1)
            ELSE <<chars[i]>> \o trim_from(i + 1)
        msg == trim_from(1)
    IN  IF failed # {}
        THEN parts[CHOOSE i \in failed : \A k \in failed : i <= k]
        ELSE Return(MessageBlock(block, msg,
                        Flatten([i \in 1..Len(parts) |-> parts[i].value.vars])))

(***************************************************************************)
(* Render time and parse time: the calls considered                        *)
(***************************************************************************)
MaxCount == 2      \* largest count a generated call passes
MaxBody == 2       \* statements in a generated body of a translate tag

\* the texts of the generated calls
Text(name) ==
    CASE name = "Hi" -> <<"H", "i">>
      [] name = "Hi %(x)s" -> <<"H", "i", " ", "%", "(", "x", ")", "s">>
      [] name = "His %(x)s" -> <<"H", "i", "s", " ", "%", "(", "x", ")", "s">>
      [] name = "5%% %(x)s" -> <<"5", "%", "%", " ", "%", "(", "x", ")", "s">>
      [] name = "100%" -> <<"1", "0", "0", "%">>
      [] name = "menu" -> <<"m", "e", "n", "u">>
      [] name = "<K" -> <<"<", "K">>
      [] name = "A&" -> <<"A", "&">>
      [] name = "2" -> <<"2">>
      [] name = "foo" -> <<"f", "o", "o">>
      [] name = "" -> <<>>

\* The render contexts: the environment's undefined type and autoescape
\* setting; the variable n bound, x and the catalog each bound or not
Contexts ==
    {[scopes |-> <<[k \in ks \cup {<<"n">>} |->
                      CASE k = <<"x">> -> StrVal(Text("A&"))
                        [] k = <<"n">> -> IntVal(MaxCount)
                        [] OTHER -> MockTranslations]>>,
      env |-> e] :
        ks \in SUBSET {<<"x">>, NameChars("translations")},
        e \in [undefined : {"Undefined", "StrictUndefined"}, autoescape : BOOLEAN]}

\* what a count argument can be
CountExprs ==
    {IntegerLiteral(n) : n \in (-1)..MaxCount}
    \cup {StringLiteral(Text("2")), StringLiteral(Text("foo")), Identifier("n")}

\* The dicts of optional entries: each name of `choices` is absent, or
\* present with one of its values
Dicts(choices) ==
    {d \in UNION {[ks -> UNION {choices[k] : k \in ks}] :
                    ks \in SUBSET DOMAIN choices} :
        \A k \in DOMAIN d : d[k] \in choices[k]}

\* {{ left | t[: context][, plural: ...][, count: ...][, x: ...] }}, and the
\* explicit filters with the arguments they want and with one too few
FilterCalls ==
    LET placeholders ==
            Dicts([x |-> {StringLiteral(Text("<K")), IntegerLiteral(7)}])
        plural == StringLiteral(Text("His %(x)s"))
        menu == StringLiteral(Text("menu"))
    IN  {Filter("t", a, k) :
            a \in {<<>>, <<menu>>, <<StringLiteral(Text(""))>>},
            k \in Dicts([plural |-> {plural}, count |-> CountExprs,
                         x |-> {StringLiteral(Text("<K"))}])}
        \cup {Filter("gettext", a, k) : a \in {<<>>, <<menu>>}, k \in placeholders}
        \cup {Filter("ngettext", a, k) :
                a \in {<<plural, c>> : c \in CountExprs} \cup {<<plural>>},
                k \in placeholders}
        \cup {Filter("pgettext", a, k) : a \in {<<menu>>, <<>>}, k \in placeholders}
        \cup {Filter("npgettext", a, k) :
                a \in {<<menu, plural, c>> : c \in CountExprs}
                      \cup {<<menu, plural>>},
                k \in placeholders}

\* The statements a generated body is made of, at line `linenum`
BodyStatement(kind, id, linenum) ==
    CASE kind = "text" -> TextNode(id, linenum, <<"H", "i", " ">>)
      [] kind = "percent" -> TextNode(id, linenum, <<"5", "%", " ">>)
      [] kind = "lines" ->
            TextNode(id, linenum, <<" ", "a", " ", "\n", " ", "b", "\n">>)
      [] kind = "pct" -> TextNode(id, linenum, <<"5", "%">>)
      [] kind = "var2" ->
            StatementNode(id, linenum,
                FilteredExpression(id + 1, Identifier("y"), <<>>))
      [] kind = "var" ->
            StatementNode(id, linenum,
                FilteredExpression(id + 1, Identifier("x"), <<>>))
      [] kind = "filtered" ->
            StatementNode(id, linenum,
                FilteredExpression(id + 1, Identifier("x"),
                                   <<Filter("upcase", <<>>, EmptyDict)>>))
      [] kind = "property" ->
            StatementNode(id, linenum,
                FilteredExpression(id + 1,
                    PathIdentifier(<<IdentifierPathElement("str", "x"),
                                     IdentifierPathElement("str", "y")>>),
                    <<>>))
      [] kind = "index" ->
            StatementNode(id, linenum,
                FilteredExpression(id + 1,
                    PathIdentifier(<<IdentifierPathElement("int", "0")>>), <<>>))
      [] kind = "literal" ->
            StatementNode(id, linenum,
                FilteredExpression(id + 1, StringLiteral(Text("Hi")), <<>>))
      [] kind = "tag" ->
            IfNode(id, linenum, Identifier("x"),
                   BlockNode(id + 1, Token("literal", "text", linenum), <<>>))
      [] kind = "comment" -> CommentNode(id, linenum, TRUE, <<"T">>)

\* The block parse_block hands to parse_message_block: statement i of
\* `kinds` at line first + i - 1
Body(id, kinds, first) ==
    BlockNode(id, Token("tag", "translate", first),
        [i \in 1..Len(kinds) |-> BodyStatement(kinds[i], id + 10 * i, first + i - 1)])

\* The nodes TranslateTag.parse builds from bodies that parse
TranslateNodes ==
    {TranslateNode(50, 1, args,
        ParseMessageBlock(Body(100, singular, 1)).value,
        IF plural = <<>> THEN None
        ELSE ParseMessageBlock(Body(200, plural, 2)).value) :
        args \in Dicts([context |-> {StringLiteral(Text("menu")),
                                     StringLiteral(Text(""))},
                        count |-> CountExprs,
                        x |-> {StringLiteral(Text("<K"))}]),
        singular \in {<<"text">>, <<"text", "var">>, <<"percent", "var">>,
                      <<"pct", "var">>},
        plural \in {<<>>, <<"lines", "var">>}}

\* The evaluated arguments of a translate tag, as resolve_count gets them:
\* no count, or a count that is an int, a str, a bool, nil or a list
BlockScopes ==
    LET counts == {IntVal(n) : n \in (-1)..MaxCount}
                  \cup {StrVal(Text("2")), StrVal(Text("foo")), StrVal(Text("")),
                        None,
                        [type |-> "bool", v |-> TRUE],
                        [type |-> "bool", v |-> FALSE],
                        [type |-> "list", v |-> <<>>],
                        [type |-> "list", v |-> <<IntVal(1)>>]}
        others == {[k \in ks |-> StrVal(Text("<K"))] : ks \in SUBSET {<<"x">>}}
    IN  others
        \cup {[k \in DOMAIN d \cup {NameChars("count")} |->
                 IF k = NameChars("count") THEN c ELSE d[k]] :
                d \in others, c \in counts}

InitRender ==
    /\ template = [env |-> StandardEnv, tree |-> <<>>]
    /\ keywords = DefaultKeywords
    /\ comment_tags = [given |-> FALSE, tags |-> <<>>]
    /\ gen = [g \in Gens |-> NewGen]
    /\ cells = [c \in Gens |-> <<>>]
    /\ response = None
    /\ \/ \E left \in {StringLiteral(Text("Hi")), StringLiteral(Text("Hi %(x)s")),
                       StringLiteral(Text("5%% %(x)s")),
                       StringLiteral(Text("100%")), Identifier("x")},
             f \in FilterCalls, context \in Contexts,
             self \in [message_interpolation : BOOLEAN, autoescape_message : BOOLEAN],
             pgettext_available \in BOOLEAN :
            request = [kind |-> "filter", left |-> left, filter |-> f,
                       context |-> context, self |-> self,
                       pgettext_available |-> pgettext_available]
       \/ \E node \in TranslateNodes,
             context \in Contexts
                \cup {[c EXCEPT !.scopes =
                         <<[k \in DOMAIN c.scopes[1] |->
                              IF k = NameChars("translations")
                              THEN NamingTranslations ELSE c.scopes[1][k]]>>] :
                      c \in {d \in Contexts :
                                NameChars("translations") \in DOMAIN d.scopes[1]}},
             pgettext_available \in BOOLEAN :
            request = [kind |-> "tag", node |-> node, context |-> context,
                       pgettext_available |-> pgettext_available]
       \/ \E names \in SUBSET {"t", "gettext", "ngettext", "pgettext",
                                  "npgettext", "upcase", "money"},
             custom \in SUBSET {"t", "gettext", "ngettext", "pgettext",
                                   "npgettext"},
             replace \in BOOLEAN :
            /\ custom \subseteq names
            /\ request =
                  [kind |-> "register", replace |-> replace,
                   filters |->
                      [n \in names |->
                          IF n \in custom THEN FilterObject("Custom", "before")
                          ELSE IF n \in DOMAIN TranslationFilterClass
                          THEN FilterObject(TranslationFilterClass[n], "before")
                          ELSE FilterObject("Builtin", "before")]]
       \/ \E block_scope \in BlockScopes :
            request = [kind |-> "count", block_scope |-> block_scope]
       \/ \E kinds \in UNION {[1..n -> {"text", "percent", "lines", "var",
                                          "pct", "var2",
                                          "filtered", "property", "index",
                                          "literal", "tag", "comment"}] :
                                n \in 0..MaxBody},
             first \in {1, 3} :
            request = [kind |-> "parse", block |-> Body(100, kinds, first)]

\* the engine applies the filter registered under the name to the value
CallTranslate ==
    /\ request.kind = "filter" /\ request.filter.name = "t"
    /\ response = None
    /\ response' = ApplyFilter(FilterGet(template.env, "t"), request.self,
                               request.left, request.filter, request.context,
                               request.pgettext_available)
    /\ request' = [request EXCEPT !.context.scopes =
                      ScopesAfterFilter(request.self, request.filter,
                                        request.context,
                                        request.pgettext_available, response')]
    /\ UNCHANGED <<template, keywords, comment_tags, gen, cells>>

CallGetText ==
    /\ request.kind = "filter" /\ request.filter.name = "gettext"
    /\ response = None
    /\ response' = ApplyFilter(FilterGet(template.env, "gettext"), request.self,
                               request.left, request.filter, request.context,
                               request.pgettext_available)
    /\ request' = [request EXCEPT !.context.scopes =
                      ScopesAfterFilter(request.self, request.filter,
                                        request.context,
                                        request.pgettext_available, response')]
    /\ UNCHANGED <<template, keywords, comment_tags, gen, cells>>

CallNGetText ==
    /\ request.kind = "filter" /\ request.filter.name = "ngettext"
    /\ response = None
    /\ response' = ApplyFilter(FilterGet(template.env, "ngettext"), request.self,
                               request.left, request.filter, request.context,
                               request.pgettext_available)
    /\ request' = [request EXCEPT !.context.scopes =
                      ScopesAfterFilter(request.self, request.filter,
                                        request.context,
                                        request.pgettext_available, response')]
    /\ UNCHANGED <<template, keywords, comment_tags, gen, cells>>

CallPGetText ==
    /\ request.kind = "filter" /\ request.filter.name = "pgettext"
    /\ response = None
    /\ response' = ApplyFilter(FilterGet(template.env, "pgettext"), request.self,
                               request.left, request.filter, request.context,
                               request.pgettext_available)
    /\ request' = [request EXCEPT !.context.scopes =
                      ScopesAfterFilter(request.self, request.filter,
                                        request.context,
                                        request.pgettext_available, response')]
    /\ UNCHANGED <<template, keywords, comment_tags, gen, cells>>

CallNPGetText ==
    /\ request.kind = "filter" /\ request.filter.name = "npgettext"
    /\ response = None
    /\ response' = ApplyFilter(FilterGet(template.env, "npgettext"), request.self,
                               request.left, request.filter, request.context,
                               request.pgettext_available)
    /\ request' = [request EXCEPT !.context.scopes =
                      ScopesAfterFilter(request.self, request.filter,
                                        request.context,
                                        request.pgettext_available, response')]
    /\ UNCHANGED <<template, keywords, comment_tags, gen, cells>>

\* the engine renders a translate tag
RenderTranslateNode ==
    /\ request.kind = "tag"
    /\ response = None
    /\ response' = RenderToOutput(request.node, request.context,
                                  request.pgettext_available)
    /\ request' = [request EXCEPT !.context.scopes =
                      ScopesAfterRender(request.node, request.context,
                                        request.pgettext_available, response')]
    /\ UNCHANGED <<template, keywords, comment_tags, gen, cells>>

\* the engine renders the same tag once more, on the asynchronous path,
\* into a buffer of its own
RenderTranslateNodeAsync ==
    /\ request.kind = "tag"
    /\ response # None
    /\ "async" \notin DOMAIN response
    /\ response' = [ops |-> response.ops, raised |-> response.raised,
                    value |-> response.value, markup |-> response.markup,
                    async |-> RenderToOutputAsync(request.node, request.context,
                                                  request.pgettext_available)]
    /\ request' = [request EXCEPT !.context.scopes =
                      ScopesAfterRender(request.node, request.context,
                                        request.pgettext_available,
                                        response'.async)]
    /\ UNCHANGED <<template, keywords, comment_tags, gen, cells>>

\* the parser hands a body of a translate tag to parse_message_block
ParseBody ==
    /\ request.kind = "parse"
    /\ response = None
    /\ response' = ParseMessageBlock(request.block)
    /\ UNCHANGED <<template, keywords, comment_tags, gen, cells, request>>

\* register_translation_filters(env, replace) on an environment that holds
\* request.filters
CallRegister ==
    /\ request.kind = "register"
    /\ response = None
    /\ response' = RegisterTranslationFilters(request.filters, request.replace)
    /\ UNCHANGED <<template, keywords, comment_tags, gen, cells, request>>

\* render_to_output resolves the count of the evaluated arguments
CallResolveCount ==
    /\ request.kind = "count"
    /\ response = None
    /\ response' = ResolveCount(request.block_scope)
    /\ UNCHANGED <<template, keywords, comment_tags, gen, cells, request>>

NextRender ==
    \/ CallTranslate
    \/ CallGetText
    \/ CallNGetText
    \/ CallPGetText
    \/ CallNPGetText
    \/ RenderTranslateNode
    \/ ParseBody
    \/ CallResolveCount
    \/ CallRegister
    \/ RenderTranslateNodeAsync

SpecRender == InitRender /\ [][NextRender]_vars

(***************************************************************************)
(* Vocabulary of the properties                                            *)
(***************************************************************************)
Yields(g) == 1..Len(gen[g].out)

\* line of the comment that was buffered when tuple i of g was yielded
BufferedLine(g, i) == gen[g].trace[i].before[1][1]

\* Every hook the walk can reach, in document order: a node before its
\* children, a child's expression before the child's node, an expression's
\* filters left to right before its sub-expressions.
RECURSIVE ExprHooks(_, _)
ExprHooks(e, lineno) ==
    (IF e.type = "FilteredExpression"
     THEN [i \in 1..Len(e.filters) |->
            [call |-> FilterCall(e, i), left |-> e.expression,
             filter |-> e.filters[i], lineno |-> lineno]]
     ELSE <<>>)
    \o Flatten([i \in 1..Len(e.children) |-> ExprHooks(e.children[i], lineno)])

RECURSIVE NodeHooks(_)
NodeHooks(n) ==
    <<[call |-> TagCall(n), node |-> n]>>
    \o Flatten([i \in 1..Len(n.children) |->
            (IF n.children[i].expression # None
             THEN ExprHooks(n.children[i].expression, n.tok.linenum) ELSE <<>>)
            \o (IF n.children[i].node # None
                THEN NodeHooks(n.children[i].node) ELSE <<>>)])

DocumentOrder(tree) == Flatten([i \in 1..Len(tree) |-> NodeHooks(tree[i])])

\* the hook's name is a keyword and what is registered under it is translatable
Recognized(h) ==
    /\ h.call.name \in keywords
    /\ h.call.kind = "filter" =>
          FilterGet(template.env, h.call.name) \in
              {"Translate", "GetText", "NGetText", "PGetText", "NPGetText"}
    /\ h.call.kind = "tag" => h.call.ntype = "TranslateNode"

\* what a recognized hook returns
Returned(h) ==
    IF h.call.kind = "filter"
    THEN LET m == FilterMessage(FilterGet(template.env, h.call.name), h.left,
                                h.filter, h.lineno)
         IN  IF m = None THEN <<>> ELSE <<m>>
    ELSE TagMessages(h.node)

RECURSIVE SelectCalls(_)
SelectCalls(hooks) ==
    IF hooks = <<>> THEN <<>>
    ELSE (IF Recognized(Head(hooks)) /\ Returned(Head(hooks)) # <<>>
          THEN <<Head(hooks).call>> ELSE <<>>)
         \o SelectCalls(Tail(hooks))

\* the call-sites that hold a literal message, in document order
LiteralCallSites == SelectCalls(DocumentOrder(template.tree))

YieldedCalls(g) == [i \in Yields(g) |-> gen[g].trace[i].call]

(***************************************************************************)
(* C1.  A call-site whose name is a keyword but whose message or required  *)
(* positional arguments are missing or not string literals yields no tuple *)
(* and raises no error, and the tuples of all other call-sites of the      *)
(* template are still yielded.                                             *)
(* The code raises: _extract_from_filters yields the hook's None and the   *)
(* loop in visit_expression unpacks it.                                    *)
(***************************************************************************)
C1_NonLiteralSiteIsSkipped ==
    \A g \in Gens :
        /\ gen[g].status # "raised"
        /\ gen[g].status = "done" => YieldedCalls(g) = LiteralCallSites

(***************************************************************************)
(* C2.  As amended: a buffered comment is attached to a yielded tuple only *)
(* if its line number is not less than the call-site's line number minus   *)
(* one (line distance 0 or 1); at line distance 2 and more the tuple's     *)
(* comments are empty.                                                     *)
(***************************************************************************)
C2_AttachedWithinOneLine ==
    \A g \in Gens : \A i \in Yields(g) :
        LET t == gen[g].trace[i]
        IN  /\ gen[g].out[i].comments # <<>> =>
                /\ t.before # <<>>
                /\ gen[g].out[i].comments = <<t.before[1][2]>>
                /\ BufferedLine(g, i) >= t.lineno - 1
            /\ (t.before # <<>> /\ t.lineno - BufferedLine(g, i) >= 2) =>
                gen[g].out[i].comments = <<>>

\* a comment one line above a call-site was attached
C2_Witness ==
    \E g \in Gens : \E i \in Yields(g) :
        /\ gen[g].out[i].comments # <<>>
        /\ gen[g].out[i].lineno - BufferedLine(g, i) = 1

\* C2 as stated: attached only at line distance exactly one
C2_AttachedOnlyAtDistanceOne ==
    \A g \in Gens : \A i \in Yields(g) :
        gen[g].out[i].comments # <<>> =>
            BufferedLine(g, i) = gen[g].out[i].lineno - 1

(***************************************************************************)
(* C3.  A tagged comment separated from the next call-site by a blank line *)
(* or by unrelated content (literal text, a statement that is no           *)
(* call-site) is not attached to that call-site's tuple.                   *)
(* The code tests the line distance only.                                  *)
(***************************************************************************)
C3_SeparatedCommentNotAttached ==
    \A g \in Gens : \A i \in Yields(g) :
        LET t == gen[g].trace[i]
        IN  (t.before # <<>> /\ (t.unrelated \/ t.lineno - BufferedLine(g, i) >= 2))
                => gen[g].out[i].comments = <<>>

(***************************************************************************)
(* C4.  The comment buffer never holds more than one comment, so a tuple   *)
(* has at most one comment, and the comment attached is the tagged comment *)
(* visited last.                                                           *)
(***************************************************************************)
C4_OneBufferedComment ==
    /\ \A c \in DOMAIN cells : Len(cells[c]) <= 1
    /\ \A g \in Gens : \A i \in Yields(g) :
        /\ Len(gen[g].out[i].comments) <= 1
        /\ gen[g].trace[i].attached # <<>> =>
              gen[g].trace[i].attached[1][3] = gen[g].trace[i].lastTagged

\* two tagged comments precede a call-site and the second one was attached
C4_Witness ==
    /\ Len(template.tree) = 3
    /\ template.tree[1].type = "CommentNode" /\ template.tree[1].id = 10
    /\ IsTagged(template.tree[1].text, CommentTagsOrEmpty(comment_tags))
    /\ template.tree[2].type = "CommentNode"
    /\ Len(gen[1].out) = 1
    /\ gen[1].trace[1].attached # <<>>
    /\ gen[1].trace[1].attached[1][3] = 20

(***************************************************************************)
(* C5.  No comment node is in the comments of two yielded tuples, and the  *)
(* buffer is empty once the generator has gone on from a yield.            *)
(***************************************************************************)
C5_CommentAttachedOnce ==
    /\ [](\A g \in Gens : \A i, j \in Yields(g) :
            (i # j /\ gen[g].trace[i].attached # <<>>
                   /\ gen[g].trace[j].attached # <<>>)
                => gen[g].trace[i].attached[1][3] # gen[g].trace[j].attached[1][3])
    /\ [][\A g \in Gens :
            (At(g, "resume") /\ gen'[g] # gen[g]) => cells'[gen[g].cell] = <<>>]_vars

\* a tuple with a comment was followed by another tuple of the same walk
C5_Witness ==
    \E g \in Gens : \E i \in Yields(g) :
        /\ gen[g].out[i].comments # <<>>
        /\ i < Len(gen[g].out)
        /\ gen[g].out[i + 1].lineno - gen[g].out[i].lineno <= 1

(***************************************************************************)
(* C6.  A comment whose trimmed text starts with none of the configured    *)
(* comment_tags is in no tuple's comments and leaves the comment buffer    *)
(* unchanged; when comment_tags is omitted or empty every yielded tuple    *)
(* has comments == [].                                                     *)
(***************************************************************************)
StartsWithNoTag(text) ==
    \A k \in 1..Len(comment_tags.tags) :
        ~StartsWith(Strip(text), comment_tags.tags[k])

C6_UntaggedCommentIgnored ==
    /\ [](\A g \in Gens : \A i \in Yields(g) :
            /\ \A c \in 1..Len(gen[g].out[i].comments) :
                  ~StartsWithNoTag(gen[g].out[i].comments[c])
            /\ (~comment_tags.given \/ comment_tags.tags = <<>>)
                  => gen[g].out[i].comments = <<>>)
    /\ [][\A g \in Gens :
            (/\ At(g, "visit")
             /\ IsCommentNode(Top(g).node) /\ Top(g).node.hasText
             /\ (~comment_tags.given \/ StartsWithNoTag(Top(g).node.text))
             /\ gen'[g] # gen[g])
            => cells' = cells]_vars

\* an untagged comment that holds the tag further in was visited while a
\* tagged comment was buffered, and the call-site got the tagged comment
C6_Witness ==
    /\ Len(template.tree) = 3
    /\ template.tree[1].type = "CommentNode" /\ template.tree[1].hasText
    /\ ~StartsWithNoTag(template.tree[1].text)
    /\ template.tree[2].type = "CommentNode" /\ template.tree[2].hasText
    /\ StartsWithNoTag(template.tree[2].text)
    /\ Contains(template.tree[2].text, <<"T">>)
    /\ comment_tags.given
    /\ Len(gen[1].out) = 1
    /\ gen[1].out[1].comments = <<Strip(template.tree[1].text)>>

(***************************************************************************)
(* C7.  A call-site contributes a tuple only if its name is in the         *)
(* keywords and what is registered under the name is translatable (a       *)
(* TranslatableFilter in the template's environment, a node that is a      *)
(* TranslatableTag); a filter name that is a keyword with no translatable  *)
(* filter registered yields nothing and raises nothing.                    *)
(***************************************************************************)
C7_KeywordAndTranslatable ==
    \A g \in Gens :
        /\ \A i \in Yields(g) : Recognized(gen[g].trace[i])
        /\ gen[g].raisedAt # None => Recognized([call |-> gen[g].raisedAt])

\* a walk came to its end over a template whose filters are all named by
\* keywords, with no translation filter registered: nothing was yielded
C7_Witness ==
    /\ template.env = PlainEnv
    /\ \A k \in 1..Len(template.tree) :
          /\ template.tree[k].type = "StatementNode"
          /\ LET e == template.tree[k].children[1].expression
             IN  /\ e.expression.type = "StringLiteral"
                 /\ \A i \in 1..Len(e.filters) : e.filters[i].name \in keywords
    /\ gen[1].status = "done"
    /\ gen[1].out = <<>>

(***************************************************************************)
(* C8.  The tuples are yielded in pre-order (document order) of the tree:  *)
(* a node's own message before the messages of its children, the messages  *)
(* of an earlier child or top-level statement before those of a later one. *)
(***************************************************************************)
PositionOf(order, call) ==
    CHOOSE k \in 1..Len(order) : order[k].call = call

C8_DocumentOrder ==
    \A g \in Gens :
        gen[g].trace # <<>> =>
            LET order == DocumentOrder(template.tree)
                at == [i \in Yields(g) |-> PositionOf(order, gen[g].trace[i].call)]
            IN  \A i \in Yields(g) : i > 1 => at[i - 1] < at[i]

\* a tag yielded its own message and then a call-site among its children
\* yielded, and a later statement yielded after both
C8_Witness ==
    \E i \in Yields(1) :
        /\ i + 2 <= Len(gen[1].out)
        /\ gen[1].trace[i].call.kind = "tag"
        /\ gen[1].trace[i + 1].call.kind = "filter"
        /\ \E k \in 1..Len(template.tree) :
              /\ template.tree[k].id = gen[1].trace[i].call.id
              /\ \E c \in 1..Len(template.tree[k].children) :
                    LET e == template.tree[k].children[c].expression
                    IN  /\ e # None
                        /\ e.type = "FilteredExpression"
                        /\ e.id = gen[1].trace[i + 1].call.id
              /\ k < Len(template.tree)
              /\ template.tree[k + 1].id + 1 = gen[1].trace[i + 2].call.id

(***************************************************************************)
(* C9.  Two runs of extract_from_template over the same template, keywords *)
(* and comment_tags, one after the other, yield the same tuples in the     *)
(* same order; the template is unchanged by either, and the second run     *)
(* starts from an empty comment buffer whatever the first left.            *)
(***************************************************************************)
C9_RepeatedRunsAgree ==
    /\ []((Finished(gen[1]) /\ Finished(gen[2])
             /\ (gen[1].afterOther \/ gen[2].afterOther))
            => /\ gen[1].out = gen[2].out
               /\ gen[1].status = gen[2].status)
    /\ [][template' = template]_vars
    /\ [][\A g \in Gens :
            (gen[g].status = "new" /\ gen'[g].status # "new")
                => cells'[gen'[g].cell] = <<>>]_vars

\* the first run ended with a comment left in its buffer, and the second,
\* begun after that, has ended too with tuples yielded
C9_Witness ==
    /\ Finished(gen[1]) /\ Finished(gen[2])
    /\ gen[2].afterOther
    /\ cells[gen[1].cell] # <<>>
    /\ gen[2].out # <<>>

(***************************************************************************)
(* C10.  Two generators over the same template, advanced in any            *)
(* interleaving, each yield the sequence they yield when run alone: a      *)
(* comment buffered by one is neither attached nor cleared by the other.   *)
(***************************************************************************)
IsPrefix(s, t) == Len(s) <= Len(t) /\ SubSeq(t, 1, Len(s)) = s

C10_InterleavedRunsAgree ==
    \A g \in Gens :
        LET alone == RunAlone(template, keywords, CommentTagsOrEmpty(comment_tags))
        IN  /\ IsPrefix(gen[g].out, alone.out)
            /\ Finished(gen[g]) =>
                  /\ gen[g].out = alone.out
                  /\ gen[g].status = alone.status

\* both generators ran at the same time, each buffered a comment and each
\* yielded a tuple that carries it
C10_Witness ==
    /\ Finished(gen[1]) /\ Finished(gen[2])
    /\ ~gen[1].afterOther /\ ~gen[2].afterOther
    /\ \A g \in Gens : \E i \in Yields(g) : gen[g].out[i].comments # <<>>

(***************************************************************************)
(* C11.  extract_liquid registers the standard translation filters and the *)
(* translate tag before it parses, so it yields the tuples that            *)
(* extract_from_template yields for the same source parsed in an           *)
(* environment where they are registered.                                  *)
(* The code registers nothing: Template(source) is bound to the implicit   *)
(* environment.                                                            *)
(***************************************************************************)
C11_ExtractLiquidAsRegistered ==
    (gen[1].via = "extract_liquid" /\ Finished(gen[1])) =>
        gen[1].out = RunAlone([env |-> StandardEnv, tree |-> template.tree],
                              keywords, CommentTagsOrEmpty(comment_tags)).out

(***************************************************************************)
(* Vocabulary of the render-time properties                                *)
(***************************************************************************)
\* the filter registered under `name` was called
Called(name) ==
    request.kind = "filter" /\ request.filter.name = name /\ response # None

\* the call went as far as the catalog
Invoked == Len(response.ops) = 1

\* the catalog operation of that name was the one invoked
InvokedOp(name) == Invoked /\ response.ops[1].name = name

\* the count the catalog was given (the last argument of a plural operation)
InvokedCount == response.ops[1].args[Len(response.ops[1].args)]

\* the keyword argument `name` of the call, evaluated
KwargValue(name) == Evaluate(request.filter.kwargs[name], request.context)

HasKwarg(name) == name \in DOMAIN request.filter.kwargs

\* the count a call asks for: the integer its count argument stands for, 1
\* when there is none or it stands for no integer
AskedCount ==
    IF ~HasKwarg("count") THEN 1
    ELSE LET n == PyInt(KwargValue("count"))
         IN  IF n.raised # "" THEN 1 ELSE n.value

\* a context argument that is a non-empty string
HasContextArg ==
    request.filter.args # <<>> /\ Truthy(Evaluate(request.filter.args[1], request.context))

NoContextArg == request.filter.args = <<>>

(***************************************************************************)
(* C12: at render time the t filter invokes gettext when plural and        *)
(* context are both absent, ngettext when only plural is present, pgettext *)
(* when only context is present and npgettext when both are; with plural   *)
(* present and a count that is missing or not numeric, the plural-aware    *)
(* operation is still the one invoked, with count 1.  (Checked where       *)
(* pgettext is available and the call reaches the catalog.)                *)
(***************************************************************************)
C12_TFilterDispatchByPresence ==
    (Called("t") /\ Invoked /\ request.pgettext_available
        /\ (HasContextArg \/ NoContextArg))
    => /\ InvokedOp(CASE HasKwarg("plural") /\ HasContextArg -> "npgettext"
                      [] HasKwarg("plural") /\ ~HasContextArg -> "ngettext"
                      [] ~HasKwarg("plural") /\ HasContextArg -> "pgettext"
                      [] OTHER -> "gettext")
       /\ HasKwarg("plural") => InvokedCount = AskedCount

(***************************************************************************)
(* C13: for every t filter call whose message, context and plural          *)
(* arguments are string literals, in every combination of presence, with   *)
(* or without a count, the funcname Translate.message produces at          *)
(* extraction is the name of the catalog operation Translate.__call__      *)
(* invokes at render time.  (Checked where pgettext is available.)         *)
(***************************************************************************)
C13_ExtractedFuncnameIsInvokedOp ==
    (/\ Called("t") /\ Invoked /\ request.pgettext_available
     /\ IsStringLiteral(request.left)
     /\ \A i \in 1..Len(request.filter.args) :
            IsStringLiteral(request.filter.args[i])
     /\ HasKwarg("plural") => IsStringLiteral(request.filter.kwargs["plural"]))
    => InvokedOp(TranslateMessage(request.left, request.filter, 1).funcname)

(***************************************************************************)
(* C14: for each of the four combinations of a literal plural and a        *)
(* literal context being present or absent, the t filter and the translate *)
(* tag extract the funcname and the message parts, in their order, that    *)
(* the explicit filter extracts: gettext -> (singular), ngettext ->        *)
(* (singular, plural), pgettext -> ((context, "c"), singular), npgettext   *)
(* -> ((context, "c"), singular, plural); the (context, "c") pair is       *)
(* always first and is present exactly when the funcname is pgettext or    *)
(* npgettext.                                                              *)
(***************************************************************************)
\* what the explicit filter extracts from the literals of a t filter or a
\* translate tag: `ctx` and `plural` are expressions, or None when absent
ExplicitEquivalent(left, ctx, plural, lineno) ==
    CASE IsStringLiteral(ctx) /\ IsStringLiteral(plural) ->
            NPGetTextMessage(left, Filter("npgettext", <<ctx, plural>>, EmptyDict),
                             lineno)
      [] IsStringLiteral(ctx) /\ ~IsStringLiteral(plural) ->
            PGetTextMessage(left, Filter("pgettext", <<ctx>>, EmptyDict), lineno)
      [] ~IsStringLiteral(ctx) /\ IsStringLiteral(plural) ->
            NGetTextMessage(left, Filter("ngettext", <<plural>>, EmptyDict), lineno)
      [] OTHER -> GetTextMessage(left, Filter("gettext", <<>>, EmptyDict), lineno)

\* the explicit equivalent of the hook of a t filter or of a translate tag
ExplicitOfHook(h) ==
    IF h.call.kind = "filter"
    THEN ExplicitEquivalent(h.left,
            IF h.filter.args # <<>> THEN h.filter.args[1] ELSE None,
            DictGet(h.filter.kwargs, "plural"), h.lineno)
    ELSE ExplicitEquivalent(StringLiteral(h.node.singular),
            DictGet(h.node.args, "context"),
            IF h.node.plural # None THEN StringLiteral(h.node.plural.text)
            ELSE None,
            h.node.tok.linenum)

\* the parts of a message are in the order of the funcname, the context pair
\* first
PartsInOrder(funcname, message) ==
    LET plain(part) == Len(part) = 1
        pair(part) == Len(part) = 2 /\ part[2] = "c"
    IN  /\ funcname = "gettext" => Len(message) = 1 /\ plain(message[1])
        /\ funcname = "ngettext" =>
              Len(message) = 2 /\ plain(message[1]) /\ plain(message[2])
        /\ funcname = "pgettext" =>
              Len(message) = 2 /\ pair(message[1]) /\ plain(message[2])
        /\ funcname = "npgettext" =>
              /\ Len(message) = 3 /\ pair(message[1])
              /\ plain(message[2]) /\ plain(message[3])
        /\ funcname \in {"gettext", "ngettext", "pgettext", "npgettext"}

\* checked of each tuple in the state in which it has just been yielded
C14_GenericExtractsAsExplicit ==
    LET i == Len(gen[1].out)
    IN  (/\ i > 0 /\ gen[1].stack # <<>> /\ Head(gen[1].stack).k = "resume"
         /\ gen[1].trace[i].call.name \in {"t", "translate"})
        => LET order == DocumentOrder(template.tree)
               h == order[PositionOf(order, gen[1].trace[i].call)]
               explicit == ExplicitOfHook(h)
               tuple == gen[1].out[i]
           IN  /\ tuple.funcname = explicit.funcname
               /\ tuple.message = explicit.message
               /\ PartsInOrder(tuple.funcname, tuple.message)

\* the t filter yielded a tuple with a literal context and a literal plural
C14_Witness ==
    /\ gen[1].out # <<>> /\ gen[1].stack # <<>> /\ Head(gen[1].stack).k = "resume"
    /\ gen[1].trace[Len(gen[1].out)].call.name = "t"
    /\ gen[1].out[Len(gen[1].out)].funcname = "npgettext"
    /\ Len(gen[1].out[Len(gen[1].out)].message) = 3

(***************************************************************************)
(* Vocabulary of the interpolation properties                              *)
(***************************************************************************)
\* one of the five filters was called
FilterCalled == request.kind = "filter" /\ response # None

\* the text the catalog returned to the call
Translated ==
    CatalogCall(ResolveTranslations(request.context), request.pgettext_available,
                response.ops[1])

\* the call reached the catalog, the catalog answered, and the filter
\* interpolates
Interpolated ==
    /\ Invoked /\ Translated.raised = ""
    /\ request.kind = "filter" => request.self.message_interpolation

\* the placeholder names of the translated text
Placeholders == LET names == FindVars(Translated.value)
                IN  {names[i] : i \in 1..Len(names)}

\* the keyword arguments left for interpolation, by the characters of their
\* names
InterpolationKwargs ==
    {NameChars(n) : n \in DOMAIN request.filter.kwargs
                         \ (IF request.filter.name = "t" THEN {"plural"} ELSE {})}

AmbientNames == DOMAIN request.context.scopes[1]

\* a placeholder that neither a keyword argument nor a variable binds
Unbound(name) == name \notin InterpolationKwargs /\ name \notin AmbientNames

\* the value a placeholder stands for: the keyword argument if there is one,
\* else the variable
Binding(name) ==
    IF name \in InterpolationKwargs
    THEN Evaluate(request.filter.kwargs[CHOOSE n \in DOMAIN request.filter.kwargs :
                                            NameChars(n) = name],
                  request.context)
    ELSE request.context.scopes[1][name]

\* the text with every placeholder %(name)s replaced by value[name] and
\* every other character kept
Filled(text, value) ==
    LET RECURSIVE from(_)
        from(i) ==
            IF i > Len(text) THEN <<>>
            ELSE IF PlaceholderEnd(text, i) # 0
            THEN value[SubSeq(text, i + 2, PlaceholderEnd(text, i) - 2)]
                 \o from(PlaceholderEnd(text, i) + 1)
            ELSE <<text[i]>> \o from(i + 1)
    IN  from(1)

\* every % of the text starts a placeholder
OnlyPlaceholders(text) ==
    \A i \in 1..Len(text) : text[i] = "%" => PlaceholderEnd(text, i) # 0

\* the string form of what each placeholder stands for, the empty string for
\* an unbound one
StringForms ==
    [name \in Placeholders |->
        IF Unbound(name) THEN <<>>
        ELSE ToLiquidString(Binding(name), request.context.env.autoescape).value]

(***************************************************************************)
(* C15, as amended: in the filter interpolation path, a placeholder        *)
(* %(name)s whose name is bound neither by a filter keyword argument nor   *)
(* by an ambient template variable is replaced by the empty string and no  *)
(* error is raised when the environment's undefined type is the default    *)
(* Undefined; when it is StrictUndefined the call raises UndefinedError.   *)
(* (Texts in which every % starts a placeholder.)                          *)
(***************************************************************************)
C15_UnboundPlaceholderEmptyUnlessStrict ==
    (/\ FilterCalled /\ Interpolated /\ OnlyPlaceholders(Translated.value)
     /\ \E name \in Placeholders : Unbound(name))
    => IF request.context.env.undefined = "Undefined"
       THEN /\ response.raised = ""
            /\ response.value = Filled(Translated.value, StringForms)
       ELSE response.raised = "UndefinedError"

\* an unbound placeholder was replaced by the empty string
C15_Witness ==
    /\ FilterCalled /\ Interpolated /\ OnlyPlaceholders(Translated.value)
    /\ \E name \in Placeholders : Unbound(name)
    /\ request.context.env.undefined = "Undefined"
    /\ response.value = <<"H", "i", " ">>

\* C15 as stated: the empty string and no error, whether or not the
\* environment uses strict undefined variables
C15_UnboundPlaceholderNeverRaises ==
    (/\ FilterCalled /\ Interpolated /\ OnlyPlaceholders(Translated.value)
     /\ \E name \in Placeholders : Unbound(name))
    => /\ response.raised = ""
       /\ response.value = Filled(Translated.value, StringForms)

(***************************************************************************)
(* C16: when the environment's undefined type is StrictUndefined,          *)
(* rendering a gettext filter whose message contains a placeholder naming  *)
(* an unbound variable raises UndefinedError instead of producing output.  *)
(* (The filter as register_translation_filters builds it by default, with  *)
(* message_interpolation on: the interpolation path the claim is about.)   *)
(***************************************************************************)
\* a gettext filter was rendered under StrictUndefined, its message a
\* literal that holds a placeholder nothing binds
StrictGetTextOfUnbound ==
    /\ Called("gettext") /\ request.filter.args = <<>>
    /\ request.context.env.undefined = "StrictUndefined"
    /\ IsStringLiteral(request.left)
    /\ \E i \in 1..Len(FindVars(request.left.value)) :
            Unbound(FindVars(request.left.value)[i])

C16_StrictUnboundPlaceholderRaises ==
    (StrictGetTextOfUnbound /\ request.self.message_interpolation)
    => /\ response.raised = "UndefinedError"
       /\ response.value = None

C16_Witness ==
    /\ StrictGetTextOfUnbound /\ request.self.message_interpolation
    /\ response.raised = "UndefinedError"
    /\ InvokedOp("gettext")

(***************************************************************************)
(* C17, as amended: when no catalog is bound to the translations variable, *)
(* the gettext, pgettext, ngettext and npgettext filters use the null      *)
(* fallback and the lack of a catalog raises no error (pgettext and        *)
(* npgettext where the Python version has them): gettext and pgettext      *)
(* return the input message unchanged, and ngettext and npgettext return   *)
(* the singular text if count is 1 and the plural text otherwise, which is *)
(* the plural text for 0 and for negative counts.                          *)
(***************************************************************************)
\* an explicit filter was called with the arguments it wants, no catalog
\* being bound, and reached the catalog
NullFallbackCall ==
    /\ FilterCalled /\ Invoked /\ request.pgettext_available
    /\ request.filter.name \in {"gettext", "ngettext", "pgettext", "npgettext"}
    /\ NameChars("translations") \notin AmbientNames

\* the string form of the message, and of positional argument i
MessageArg ==
    ToLiquidString(Evaluate(request.left, request.context),
        request.context.env.autoescape /\ request.self.autoescape_message).value

TextArg(i) ==
    ToLiquidString(Evaluate(request.filter.args[i], request.context),
        request.context.env.autoescape /\ request.self.autoescape_message).value

\* the integer positional argument i stands for, 1 if it stands for none
CountArg(i) ==
    LET n == PyInt(Evaluate(request.filter.args[i], request.context))
    IN  IF n.raised # "" THEN 1 ELSE n.value

\* the text the null fallback owes the call, the plural form being chosen by
\* `plural_if`
NullAnswer(plural_if(_)) ==
    CASE request.filter.name \in {"gettext", "pgettext"} -> MessageArg
      [] request.filter.name = "ngettext" ->
            IF plural_if(CountArg(2)) THEN TextArg(1) ELSE MessageArg
      [] request.filter.name = "npgettext" ->
            IF plural_if(CountArg(3)) THEN TextArg(2) ELSE MessageArg

ParsedBody == request.kind = "parse" /\ response # None

BodyStatements ==
    [i \in 1..Len(request.block.children) |-> request.block.children[i].node]

\* literal text of the template
IsLiteralText(node) == node.type = "LiteralNode"

\* an output statement that is a variable
IsVariableOutput(node) ==
    /\ node.type = "StatementNode"
    /\ node.children[1].expression.type = "FilteredExpression"
    /\ node.children[1].expression.expression.type = "Identifier"

\* ... with nothing but its name: no filter, no property, no index
IsBareVariable(node) ==
    /\ IsVariableOutput(node)
    /\ node.children[1].expression.filters = <<>>
    /\ Len(node.children[1].expression.expression.path) = 1
    /\ node.children[1].expression.expression.path[1].kind = "str"

Offending ==
    {i \in 1..Len(BodyStatements) :
        ~IsLiteralText(BodyStatements[i]) /\ ~IsBareVariable(BodyStatements[i])}

FirstOffending == CHOOSE i \in Offending : \A k \in Offending : i <= k

(***************************************************************************)
(* C19: parsing a body of a translate block that holds anything other than *)
(* literal text and bare variables (a variable with a filter, a variable   *)
(* with property access, a non-variable expression, any other tag) fails   *)
(* with a translation syntax error that carries the line number of the     *)
(* offending node; a body of literal text and bare variables only always   *)
(* parses.                                                                 *)
(***************************************************************************)
C19_OnlyTextAndBareVariablesParse ==
    ParsedBody =>
        IF Offending = {}
        THEN /\ response.raised = ""
             /\ response.value.block = request.block
        ELSE /\ response.raised = "TranslationSyntaxError"
             /\ response.linenum = BodyStatements[FirstOffending].tok.linenum

\* literal text, then a variable with a filter on line 4
C19_Witness ==
    /\ ParsedBody
    /\ Len(BodyStatements) = 2
    /\ IsLiteralText(BodyStatements[1])
    /\ IsVariableOutput(BodyStatements[2])
    /\ BodyStatements[2].children[1].expression.filters # <<>>
    /\ BodyStatements[2].tok.linenum = 4
    /\ response.raised = "TranslationSyntaxError"
    /\ response.linenum = 4

(***************************************************************************)
(* Vocabulary of the properties of the translate tag at render time        *)
(***************************************************************************)
RenderedTag == request.kind = "tag" /\ response # None

\* the arguments of the tag, evaluated
TagNamespace == EvaluateAll(request.node.args, request.context)

ResolvedCount == ResolveCount(TagNamespace)

ResolvedContext == ResolveMessageContext(TagNamespace)

\* the arguments of a call, the context first when there is one
WithContext(args) ==
    IF ResolvedContext # None THEN <<ResolvedContext.v>> \o args ELSE args

(***************************************************************************)
(* C20: at render time the translate tag calls ngettext (npgettext when    *)
(* the resolved context is truthy) if and only if a plural body exists and *)
(* the resolved count is truthy; otherwise it calls gettext (pgettext when *)
(* the resolved context is truthy) with the singular message only, even    *)
(* when a plural body exists (count 0).                                    *)
(***************************************************************************)
C20_TagDispatchByPluralAndCount ==
    RenderedTag =>
        /\ ResolvedCount.raised = ""
        /\ Len(response.ops) = 1
        /\ IF request.node.plural # None /\ ResolvedCount.value # 0
           THEN /\ response.ops[1].name =
                       (IF ResolvedContext # None THEN "npgettext" ELSE "ngettext")
                /\ response.ops[1].args =
                       WithContext(<<request.node.singular,
                                     request.node.plural.text,
                                     ResolvedCount.value>>)
           ELSE /\ response.ops[1].name =
                       (IF ResolvedContext # None THEN "pgettext" ELSE "gettext")
                /\ response.ops[1].args = WithContext(<<request.node.singular>>)

\* a tag with a plural body and a count of 0 asked for the singular message
C20_Witness ==
    /\ RenderedTag
    /\ request.node.plural # None
    /\ NameChars("count") \in DOMAIN TagNamespace
    /\ ResolvedCount.value = 0
    /\ ResolvedContext # None
    /\ response.ops[1].name = "pgettext"
    /\ response.ops[1].args = <<ResolvedContext.v, request.node.singular>>

(***************************************************************************)
(* Vocabulary of the properties of resolve_count                           *)
(***************************************************************************)
CountResolved == request.kind = "count" /\ response # None

CountGiven == NameChars("count") \in DOMAIN request.block_scope

GivenCount == request.block_scope[NameChars("count")]

(***************************************************************************)
(* C21: resolving the count of the translate tag never raises: an absent   *)
(* count gives 1, a value that can be parsed as an integer gives that      *)
(* integer, and every other value (a non-numeric string, nil, a list, any  *)
(* object) gives 1.                                                        *)
(***************************************************************************)
C21_ResolveCountNeverRaises ==
    CountResolved =>
        /\ response.raised = ""
        /\ response.value =
              (IF ~CountGiven THEN 1
               ELSE IF PyInt(GivenCount).raised = "" THEN PyInt(GivenCount).value
               ELSE 1)

(***************************************************************************)
(* Vocabulary of the properties of the translate tag at extraction         *)
(***************************************************************************)
\* the translate tags among the top-level statements
TopLevelTags ==
    {k \in 1..Len(template.tree) : IsTranslatableTag(template.tree[k])}

\* the tuples that came from the messages() of a node
YieldsOfTag(node) ==
    {i \in 1..Len(gen[1].out) :
        gen[1].trace[i].call.kind = "tag" /\ gen[1].trace[i].call.id = node.id}

\* the walk has come to its end and took the tags for call-sites
TagsExtracted ==
    /\ gen[1].status = "done"
    /\ gen[1].raisedAt = None
    /\ {"trans", "translate"} \subseteq keywords

(***************************************************************************)
(* C23: TranslateNode.messages() returns exactly one MessageText when the  *)
(* normalized singular body is not empty and none when it is empty,        *)
(* whether or not there is a plural body or a context argument; the line   *)
(* number of the MessageText is the line of the opening translate tag.     *)
(***************************************************************************)
C23_OneMessagePerTag ==
    TagsExtracted =>
        \A k \in TopLevelTags :
            LET node == template.tree[k]
            IN  /\ Cardinality(YieldsOfTag(node)) =
                      (IF node.singular = "" THEN 0 ELSE 1)
                /\ \A i \in YieldsOfTag(node) :
                      gen[1].out[i].lineno = node.tok.linenum

\* a tag with a plural body and a literal context gave its one tuple
C23_Witness ==
    /\ TagsExtracted
    /\ \E k \in TopLevelTags :
          LET node == template.tree[k]
          IN  /\ node.plural # None
              /\ "context" \in DOMAIN node.args
              /\ Cardinality(YieldsOfTag(node)) = 1
              /\ \A i \in YieldsOfTag(node) :
                    /\ gen[1].out[i].funcname = "npgettext"
                    /\ gen[1].out[i].lineno = node.tok.linenum

(***************************************************************************)
(* C22: for the same template, context and catalog the synchronous and the *)
(* asynchronous render path of the translate tag go through the same steps *)
(* (the same catalog operation with the same arguments, or the same error) *)
(* and write the same text to the output buffer.                           *)
(***************************************************************************)
RenderedOnBothPaths ==
    request.kind = "tag" /\ response # None /\ "async" \in DOMAIN response

C22_AsyncRendersAsSync ==
    RenderedOnBothPaths =>
        /\ response.async.ops = response.ops
        /\ response.async.raised = response.raised
        /\ response.async.value = response.value
        /\ response.async.markup = response.markup

\* both paths asked the tests' catalog for a plural form in a context and
\* wrote the text with the tag's argument x in it
C22_Witness ==
    /\ RenderedOnBothPaths
    /\ response.async.raised = ""
    /\ Len(response.async.ops) = 1
    /\ response.async.ops[1].name = "npgettext"
    /\ NameChars("x") \in DOMAIN TagNamespace
    /\ request.node.singular_vars # <<>>
    /\ response.async.value = response.value
    /\ Len(response.value) > 0

(***************************************************************************)
(* Vocabulary of the properties of the registration                        *)
(***************************************************************************)
Registered == request.kind = "register" /\ response # None

TranslationFilterNames == {"t", "gettext", "ngettext", "pgettext", "npgettext"}

\* the filter under the name was made by this call, of the class of the name
NewlyCreated(n) ==
    response[n] = FilterObject(TranslationFilterClass[n],
                               "register_translation_filters")

(***************************************************************************)
(* C24: after register_translation_filters(env, replace=False) every       *)
(* filter that was registered before under one of the names t, gettext,    *)
(* ngettext, pgettext, npgettext is still the same object and only the     *)
(* missing names are added; with replace=True all five names map to newly  *)
(* created filters; in both cases all five names are registered afterwards *)
(* and the filters under other names are unchanged.                        *)
(***************************************************************************)
C24_RegisterKeepsOrReplaces ==
    Registered =>
        /\ DOMAIN response = DOMAIN request.filters \cup TranslationFilterNames
        /\ \A n \in DOMAIN request.filters \ TranslationFilterNames :
              response[n] = request.filters[n]
        /\ \A n \in TranslationFilterNames :
              IF request.replace \/ n \notin DOMAIN request.filters
              THEN NewlyCreated(n)
              ELSE response[n] = request.filters[n]

\* without replace, a filter of the user's under the name t was kept and
\* the name gettext, which was missing, was added
C24_Witness ==
    /\ Registered
    /\ ~request.replace
    /\ "t" \in DOMAIN request.filters
    /\ "gettext" \notin DOMAIN request.filters
    /\ "money" \in DOMAIN request.filters
    /\ response["t"] = FilterObject("Custom", "before")
    /\ NewlyCreated("gettext")
    /\ response["money"] = request.filters["money"]

(***************************************************************************)
(* Vocabulary of the properties of the reconstructed message               *)
(***************************************************************************)
\* a body of literal text and bare variables was parsed
PlainBodyParsed == ParsedBody /\ Offending = {}

\* a text with every % doubled
RECURSIVE Doubled(_)
Doubled(chars) ==
    IF chars = <<>> THEN <<>>
    ELSE (IF Head(chars) = "%" THEN <<"%", "%">> ELSE <<Head(chars)>>)
         \o Doubled(Tail(chars))

VariableName(node) ==
    NameChars(node.children[1].expression.expression.path[1].value)

\* the in-order concatenation
ExpectedText ==
    Flatten([i \in 1..Len(BodyStatements) |->
        IF IsLiteralText(BodyStatements[i])
        THEN Doubled(BodyStatements[i].tok.value)
        ELSE <<"%", "(">> \o VariableName(BodyStatements[i]) \o <<")", "s">>])

\* the names of the variables in order of occurrence
ExpectedVars ==
    Flatten([i \in 1..Len(BodyStatements) |->
        IF IsLiteralText(BodyStatements[i]) THEN <<>>
        ELSE <<VariableName(BodyStatements[i])>>])

Blank(c) == c \in {" ", "\n", "\t"}

\* a text without its whitespace
NoSpace(chars) == SelectSeq(chars, LAMBDA c : ~Blank(c))

\* no whitespace for the normalization of the message to work on
Compact(chars) ==
    /\ chars # <<>> => ~Blank(chars[1]) /\ ~Blank(chars[Len(chars)])
    /\ \A i \in 1..Len(chars) : chars[i] # "\n"

\* the names of the %(name)s conversions of a text under printf formatting,
\* in which %% is a literal %
RECURSIVE PrintfPlaceholders(_, _)
PrintfPlaceholders(text, i) ==
    IF i > Len(text) THEN <<>>
    ELSE IF text[i] = "%" /\ i < Len(text) /\ text[i + 1] = "%"
    THEN PrintfPlaceholders(text, i + 2)
    ELSE IF PlaceholderEnd(text, i) # 0
    THEN <<SubSeq(text, i + 2, PlaceholderEnd(text, i) - 2)>>
         \o PrintfPlaceholders(text, PlaceholderEnd(text, i) + 1)
    ELSE PrintfPlaceholders(text, i + 1)

C26_FormatMessageNeverRaises ==
    (FilterCalled \/ RenderedTag) =>
        response.raised \notin {"KeyError", "ValueError"}

(***************************************************************************)
(* C27: for the t filter called with a plural argument and an integer      *)
(* count n, for every n, 0 and 1 among them, the plural-aware operation    *)
(* (ngettext, or npgettext when a context is given) is invoked with that   *)
(* same n, as the ngettext and npgettext filters do for the same           *)
(* arguments.  (Checked where pgettext is available and the call reaches   *)
(* the catalog.)                                                           *)
(***************************************************************************)
IntegerCountGiven == HasKwarg("count") /\ KwargValue("count").type = "int"

C27_TFilterPluralForEveryCount ==
    (/\ Called("t") /\ Invoked /\ request.pgettext_available
     /\ HasKwarg("plural") /\ IntegerCountGiven
     /\ (HasContextArg \/ NoContextArg))
    => /\ InvokedOp(IF HasContextArg THEN "npgettext" ELSE "ngettext")
       /\ InvokedCount = KwargValue("count").v

(***************************************************************************)
(* Vocabulary of the properties of the tag's substitution                  *)
(***************************************************************************)
\* the scope extended with the keyword arguments of the tag
TagScope ==
    Extend(request.context, Without(TagNamespace, NameChars("context")))

TagBound(name) ==
    name \in DOMAIN TagScope.scopes[1] \/ name \in DOMAIN TagScope.scopes[2]

\* the string form of each placeholder's value in that scope
TagStringForms ==
    [name \in Placeholders |->
        ToLiquidString(Resolve(TagScope, name),
                       request.context.env.autoescape).value]

(***************************************************************************)
(* C28: when the translate tag renders, every placeholder %(name)s of the  *)
(* translated text, one that is no variable of the tag's own singular or   *)
(* plural body included, is substituted with the value of `name` resolved  *)
(* in the scope extended with the tag's keyword arguments (a tag argument  *)
(* shadows an ambient variable of the same name).  (Translated texts in    *)
(* which every % starts a placeholder, every placeholder being bound.)     *)
(***************************************************************************)
C28_TagSubstitutesFromExtendedScope ==
    (/\ RenderedTag /\ Invoked /\ Translated.raised = ""
     /\ OnlyPlaceholders(Translated.value)
     /\ \A name \in Placeholders : TagBound(name))
    => /\ response.raised = ""
       /\ response.value = Filled(Translated.value, TagStringForms)

ChainStatements ==
    {k \in 1..Len(template.tree) :
        /\ template.tree[k].type = "StatementNode"
        /\ template.tree[k].children[1].expression.type = "FilteredExpression"
        /\ Len(template.tree[k].children[1].expression.filters) > 1
        /\ IsStringLiteral(template.tree[k].children[1].expression.expression)}

\* the filters of the chain that are keywords and translatable, in chain
\* order, by their index in the chain
ChainSites(e) ==
    SelectSeq([i \in 1..Len(e.filters) |-> i],
              LAMBDA i : IsFilterCallSite(template.env, e.filters[i].name, keywords))

\* the tuples the chain yielded, in the order of the yields
ChainYields(e) ==
    SelectSeq([i \in 1..Len(gen[1].out) |-> i],
              LAMBDA i : /\ gen[1].trace[i].call.kind = "filter"
                         /\ gen[1].trace[i].call.id = e.id)

\* the part of a message that is the singular
SingularPart(tuple) ==
    IF tuple.funcname \in {"pgettext", "npgettext"}
    THEN tuple.message[2] ELSE tuple.message[1]

\* the walk over a bound template has come to its end
WalkDone ==
    template.env # None /\ gen[1].status = "done" /\ gen[1].raisedAt = None

(***************************************************************************)
(* C30: for a filtered expression with several filters, every filter of    *)
(* the chain whose name is a keyword and which is translatable is given    *)
(* the leftmost operand of the expression as its message (not the result   *)
(* of the filters before it), so the chain yields one tuple for each such  *)
(* filter, in chain order, all with the line number of the enclosing       *)
(* statement, and at most the first of them carries the buffered comment.  *)
(***************************************************************************)
C30_ChainYieldsPerFilterFromLeft ==
    WalkDone =>
        \A k \in ChainStatements :
            LET e == template.tree[k].children[1].expression
                ys == ChainYields(e)
            IN  /\ [j \in 1..Len(ys) |-> gen[1].trace[ys[j]].call.idx]
                      = ChainSites(e)
                /\ \A j \in 1..Len(ys) :
                      /\ SingularPart(gen[1].out[ys[j]]) = <<e.expression.value>>
                      /\ gen[1].out[ys[j]].lineno = template.tree[k].tok.linenum
                      /\ j > 1 => gen[1].out[ys[j]].comments = <<>>

\* a chain of t, upcase and gettext right under a tagged comment gave two
\* tuples, the first with the comment
C30_Witness ==
    /\ WalkDone
    /\ \E k \in ChainStatements :
          LET e == template.tree[k].children[1].expression
              ys == ChainYields(e)
          IN  /\ Len(ys) = 2
              /\ gen[1].out[ys[1]].funcname = "gettext"
              /\ gen[1].out[ys[1]].comments # <<>>
              /\ gen[1].out[ys[2]].comments = <<>>
              /\ gen[1].out[ys[2]].message = gen[1].out[ys[1]].message
              /\ gen[1].trace[ys[1]].call.name = "t"
              /\ gen[1].trace[ys[2]].call.name = "gettext"

====
